---- MODULE Spec2Model ----
(***************************************************************************)
(* Batch-tracked inventory of the A7 Smart POS: the server's batch routes  *)
(* (backend/src/routes/api/batches.ts) over the database, the client's     *)
(* product store (store.ts), the stock-entry grid (pages/StockEntry.tsx)   *)
(* and the expiry analytics and return workflow (pages/Expiry.tsx).        *)
(***************************************************************************)
EXTENDS Integers, Sequences, FiniteSets, TLC

\* ------------------------------------------------------------------ bounds
\* Largest quantity a single request or call carries.
MaxQty == 2
\* Cap on any stock counter (stockLevel, batch quantity); guards stop there.
MaxStock == 4
\* Cap on the number of batch rows ever created (server ids and local ids).
MaxBatchId == 3
\* Cap on the grid's rows, on the scans of one identity, on products created.
MaxRows == 3
MaxScans == 3
MaxNewProducts == 1
\* Cap on the rows ever entered in the runs of the commit.
MaxSaveRows == 2

\* ------------------------------------------------------------- value sets
Handlers == {"h1", "h2"}
BatchNumbers == {"DEFAULT", "L1", "L2"}
UserBranch == "b1"

Max(a, b) == IF a >= b THEN a ELSE b

RECURSIVE SumQty(_)
\* reduce((s, b) => s + b.quantity, 0) over a sequence of batches
SumQty(s) == IF s = <<>> THEN 0 ELSE Head(s).quantity + SumQty(Tail(s))

RECURSIVE SetSumQty(_)
SetSumQty(S) ==
  IF S = {} THEN 0
  ELSE LET r == CHOOSE x \in S : TRUE IN r.quantity + SetSumQty(S \ {r})

\* Array.prototype.findIndex: the first index whose element satisfies Test, 0 when none
\* (JavaScript's -1).
FindIndex(s, Test(_)) ==
  IF \E i \in 1..Len(s) : Test(s[i])
  THEN CHOOSE i \in 1..Len(s) : Test(s[i]) /\ \A j \in 1..(i - 1) : ~Test(s[j])
  ELSE 0

\* ------------------------------------------------------------------ state
VARIABLES
  dbProducts,    \* server: product rows, in creation order
  dbBatches,     \* server: the set of batch rows
  nextId,        \* server: next fresh batch id
  schemaUnique,  \* whether the batch table rejects a second (productId, batchNumber)
  req,           \* server: per handler, the request being served and its locals
  today,         \* the calendar day (new Date()), as a day number
  utcOffset,     \* the browser's time zone, in hours east of UTC
  allProducts,   \* client: useProductStore.allProducts (master list)
  products,      \* client: useProductStore.products (current branch's view)
  call,          \* client: the store's async call in flight (incrementStock, ...)
  gridData,      \* StockEntry: the grid's rows (useState)
  isSaving,      \* StockEntry: the commit's busy flag
  save,          \* StockEntry: handleSaveAll's position and closure
  rowSeq,        \* StockEntry: number of rows created so far (makes row ids unique)
  scans,         \* scanner: per resolved identity, the number of scans delivered
  memo,          \* Expiry: what useMemo holds for useExpiryStats
  isReturnModalOpen,   \* Expiry: useState(false)
  selectedReturnItem,  \* Expiry: useState(null); <<>> or <<item>>
  returnQty,           \* Expiry: useState(0)
  isSubmittingReturn,  \* Expiry: useState(false)
  returnTimeout,       \* Expiry: the pending setTimeout of confirmReturn and its closure
  activeScan,    \* useScannerStore.activeScan: <<>> (null) or <<item>>
  scannedItems,  \* useScannerStore.scannedItems, newest first
  syncLogs,      \* useScannerStore.syncLogs, newest first
  items,         \* useCartStore.items: the cart's lines
  addRun         \* cart: the addItem call last made and how often it was repeated

dbVars == <<dbProducts, dbBatches, nextId, schemaUnique>>
storeVars == <<allProducts, products>>
\* what the store's operations leave alone / what the server never touches
retVars == <<isReturnModalOpen, selectedReturnItem, returnQty, isSubmittingReturn,
             returnTimeout>>
\* the scanner store's history and the cart
posVars == <<activeScan, scannedItems, syncLogs, items, addRun>>
uiVars == <<gridData, isSaving, save, rowSeq, scans, memo, retVars, posVars>>
clock == <<today, utcOffset>>
clientVars == <<clock, allProducts, products, call, uiVars>>
vars == <<dbVars, req, clientVars>>

\* ------------------------------------------------------- server: database
DbProduct(id) == CHOOSE r \in {dbProducts[i] : i \in 1..Len(dbProducts)} : r.id = id
DbHasProduct(id) == \E i \in 1..Len(dbProducts) : dbProducts[i].id = id
DbBatchesOf(id) == {b \in dbBatches : b.productId = id}
DbHasBatch(bid) == \E b \in dbBatches : b.id = bid

\* prisma.product.update({ where: { id }, data: { stockLevel } })
DbSetStock(id, level) ==
  [i \in 1..Len(dbProducts) |->
     IF dbProducts[i].id = id
     THEN [dbProducts[i] EXCEPT !.stockLevel = level]
     ELSE dbProducts[i]]

\* createBatchSchema: batchNumber min(1), quantity int min(0), costPrice positive
ValidCreate(data) ==
  /\ data.batchNumber # ""
  /\ data.quantity >= 0
  /\ data.costPrice > 0

NoData == [batchNumber |-> "", expiryDate |-> 0, quantity |-> 0, costPrice |-> 0]
IdleReq ==
  [kind |-> "none", pc |-> "idle", productId |-> "none", batchId |-> 0,
   data |-> NoData, given |-> {}, stockLevel |-> 0, existingId |-> 0,
   existingQty |-> 0, status |-> 0]

\* Quantity still to be added by the requests in flight for product id.
RECURSIVE InFlightQty(_, _)
InFlightQty(H, id) ==
  IF H = {} THEN 0
  ELSE LET h == CHOOSE x \in H : TRUE
       IN (IF req[h].pc \notin {"idle", "done"} /\ req[h].productId = id
           THEN req[h].data.quantity ELSE 0) + InFlightQty(H \ {h}, id)

RECURSIVE SetMaxQty(_)
SetMaxQty(S) ==
  IF S = {} THEN 0
  ELSE LET r == CHOOSE x \in S : TRUE IN Max(r.quantity, SetMaxQty(S \ {r}))

\* The model's cap: no counter of product id can pass MaxStock once q more arrive,
\* and no request arrives once a level has sunk below zero.
Headroom(id, q) ==
  IF DbHasProduct(id)
  THEN /\ Max(DbProduct(id).stockLevel, SetMaxQty(DbBatchesOf(id)))
            + InFlightQty(Handlers, id) + q <= MaxStock
       /\ DbProduct(id).stockLevel >= 0
  ELSE TRUE

\* The model's cap on ids: every POST in flight may still create one row.
IdRoom ==
  nextId + Cardinality({h \in Handlers : req[h].kind = "POST"
                                          /\ req[h].pc \notin {"idle", "done"}})
    <= MaxBatchId

Finish(h, code) == [req EXCEPT ![h].pc = "done", ![h].status = code]

\* ---------------------------------- server: POST /products/:productId/batches
\* The request as the handler first sees it: the body is parsed
\* (createBatchSchema.parse) before the first database call.
PostArrived(h, productId, data) ==
  [req EXCEPT ![h] =
     IF ValidCreate(data)
     THEN [IdleReq EXCEPT !.kind = "POST", !.pc = "findProduct",
                          !.productId = productId, !.data = data]
     ELSE [IdleReq EXCEPT !.kind = "POST", !.pc = "done", !.status = 400,
                          !.productId = productId, !.data = data]]

\* A POST of another session (another clerk's client) arrives.
PostArrive(h, productId, data) ==
  /\ req[h].pc = "idle"
  /\ Headroom(productId, data.quantity)
  /\ IdRoom
  /\ req' = PostArrived(h, productId, data)
  /\ UNCHANGED <<dbVars, clientVars>>

\* The other session receives its response.
Respond(h) ==
  /\ req[h].pc = "done"
  /\ req' = [req EXCEPT ![h] = IdleReq]
  /\ UNCHANGED <<dbVars, clientVars>>

\* prisma.product.findFirst({ id, branchId }); 404 when there is none.
FindProduct(h) ==
  /\ req[h].pc = "findProduct"
  /\ req' = IF DbHasProduct(req[h].productId)
              /\ DbProduct(req[h].productId).branchId = UserBranch
            THEN [req EXCEPT ![h].pc = "findBatch",
                    ![h].stockLevel = DbProduct(req[h].productId).stockLevel]
            ELSE Finish(h, 404)
  /\ UNCHANGED <<dbVars, clientVars>>

\* prisma.batch.findFirst({ productId, batchNumber }): any matching row, or none.
PostFindBatch(h) ==
  /\ req[h].pc = "findBatch"
  /\ req[h].kind = "POST"
  /\ LET match == {b \in DbBatchesOf(req[h].productId) :
                     b.batchNumber = req[h].data.batchNumber}
     IN IF match = {}
        THEN req' = [req EXCEPT ![h].pc = "writeBatch", ![h].existingId = 0]
        ELSE \E b \in match :
               req' = [req EXCEPT ![h].pc = "writeBatch", ![h].existingId = b.id,
                                  ![h].existingQty = b.quantity]
  /\ UNCHANGED <<dbVars, clientVars>>

\* The row prisma.batch.create inserts: { ...data, productId }.
NewBatchRow(h) ==
  [id |-> nextId, productId |-> req[h].productId,
   batchNumber |-> req[h].data.batchNumber, expiryDate |-> req[h].data.expiryDate,
   quantity |-> req[h].data.quantity, costPrice |-> req[h].data.costPrice]

\* An update that writes the received quantity over the batch's quantity.
PostNewQuantityOverwrite(h) == req[h].data.quantity

\* The quantity prisma.batch.update writes: existingBatch.quantity + data.quantity.
PostNewQuantity(h) == req[h].existingQty + req[h].data.quantity

\* if (existingBatch) prisma.batch.update(...) else prisma.batch.create(...)
PostWriteBatch(h) ==
  /\ req[h].pc = "writeBatch"
  /\ req[h].kind = "POST"
  /\ IF req[h].existingId # 0
     THEN IF DbHasBatch(req[h].existingId)
          THEN /\ dbBatches' = {IF b.id = req[h].existingId
                                THEN [b EXCEPT !.quantity = PostNewQuantity(h),
                                               !.costPrice = req[h].data.costPrice]
                                ELSE b : b \in dbBatches}
               /\ req' = [req EXCEPT ![h].pc = "writeProduct", ![h].status = 200]
               /\ UNCHANGED nextId
          ELSE /\ req' = Finish(h, 500)
               /\ UNCHANGED <<dbBatches, nextId>>
     ELSE IF schemaUnique /\ \E b \in DbBatchesOf(req[h].productId) :
                               b.batchNumber = req[h].data.batchNumber
          THEN /\ req' = Finish(h, 500)
               /\ UNCHANGED <<dbBatches, nextId>>
          ELSE /\ dbBatches' = dbBatches \cup {NewBatchRow(h)}
               /\ nextId' = nextId + 1
               /\ req' = [req EXCEPT ![h].pc = "writeProduct", ![h].status = 201]
  /\ UNCHANGED <<dbProducts, schemaUnique, clientVars>>

\* The level prisma.product.update writes: product.stockLevel + data.quantity.
PostNewStockLevel(h) == req[h].stockLevel + req[h].data.quantity

PostWriteProduct(h) ==
  /\ req[h].pc = "writeProduct"
  /\ req[h].kind = "POST"
  /\ dbProducts' = DbSetStock(req[h].productId, PostNewStockLevel(h))
  /\ req' = [req EXCEPT ![h].pc = "done"]
  /\ UNCHANGED <<dbBatches, nextId, schemaUnique, clientVars>>

\* --------------------------- server: PATCH /products/:productId/batches/:id
\* updateBatchSchema = createBatchSchema.partial(): only the given fields are checked.
ValidUpdate(data, given) ==
  /\ "batchNumber" \in given => data.batchNumber # ""
  /\ "quantity" \in given => data.quantity >= 0
  /\ "costPrice" \in given => data.costPrice > 0

PatchArrive(h, productId, batchId, data, given) ==
  /\ req[h].pc = "idle"
  /\ Headroom(productId, data.quantity)
  /\ req' = [req EXCEPT ![h] =
       IF ValidUpdate(data, given)
       THEN [IdleReq EXCEPT !.kind = "PATCH", !.pc = "findProduct",
                            !.productId = productId, !.batchId = batchId,
                            !.data = data, !.given = given]
       ELSE [IdleReq EXCEPT !.kind = "PATCH", !.pc = "done", !.status = 400,
                            !.productId = productId, !.batchId = batchId,
                            !.data = data, !.given = given]]
  /\ UNCHANGED <<dbVars, clientVars>>

\* prisma.batch.findFirst({ id: batchId, productId }); 404 when there is none.
FindBatchById(h) ==
  /\ req[h].pc = "findBatch"
  /\ req[h].kind \in {"PATCH", "DELETE"}
  /\ LET match == {b \in DbBatchesOf(req[h].productId) : b.id = req[h].batchId}
     IN IF match = {}
        THEN req' = Finish(h, 404)
        ELSE \E b \in match :
               req' = [req EXCEPT ![h].pc = "writeBatch", ![h].existingId = b.id,
                                  ![h].existingQty = b.quantity]
  /\ UNCHANGED <<dbVars, clientVars>>

\* data.quantity ? data.quantity - existingBatch.quantity : 0
QuantityDiff(h) ==
  IF "quantity" \in req[h].given /\ req[h].data.quantity # 0
  THEN req[h].data.quantity - req[h].existingQty
  ELSE 0

\* prisma.batch.update({ where: { id: batchId }, data })
PatchWriteBatch(h) ==
  /\ req[h].pc = "writeBatch"
  /\ req[h].kind = "PATCH"
  /\ IF DbHasBatch(req[h].batchId)
     THEN /\ dbBatches' =
               {IF b.id = req[h].batchId
                THEN [b EXCEPT
                        !.quantity = IF "quantity" \in req[h].given
                                     THEN req[h].data.quantity ELSE @,
                        !.costPrice = IF "costPrice" \in req[h].given
                                      THEN req[h].data.costPrice ELSE @,
                        !.batchNumber = IF "batchNumber" \in req[h].given
                                        THEN req[h].data.batchNumber ELSE @]
                ELSE b : b \in dbBatches}
          /\ req' = IF QuantityDiff(h) # 0
                    THEN [req EXCEPT ![h].pc = "writeProduct", ![h].status = 200]
                    ELSE Finish(h, 200)
     ELSE /\ req' = Finish(h, 500)
          /\ UNCHANGED dbBatches
  /\ UNCHANGED <<dbProducts, nextId, schemaUnique, clientVars>>

\* The level the PATCH writes: product.stockLevel + quantityDiff.
PatchNewStockLevel(h) == req[h].stockLevel + QuantityDiff(h)

PatchWriteProduct(h) ==
  /\ req[h].pc = "writeProduct"
  /\ req[h].kind = "PATCH"
  /\ dbProducts' = DbSetStock(req[h].productId, PatchNewStockLevel(h))
  /\ req' = [req EXCEPT ![h].pc = "done"]
  /\ UNCHANGED <<dbBatches, nextId, schemaUnique, clientVars>>

\* -------------------------- server: DELETE /products/:productId/batches/:id
DeleteArrive(h, productId, batchId) ==
  /\ req[h].pc = "idle"
  /\ Headroom(productId, 0)
  /\ req' = [req EXCEPT ![h] =
       [IdleReq EXCEPT !.kind = "DELETE", !.pc = "findProduct",
                       !.productId = productId, !.batchId = batchId]]
  /\ UNCHANGED <<dbVars, clientVars>>

\* The level the DELETE writes: Math.max(0, product.stockLevel - existingBatch.quantity).
DeleteNewStockLevel(h) == Max(0, req[h].stockLevel - req[h].existingQty)

\* The product is updated first, the batch row deleted after.
DeleteWriteProduct(h) ==
  /\ req[h].pc = "writeBatch"
  /\ req[h].kind = "DELETE"
  /\ dbProducts' = DbSetStock(req[h].productId, DeleteNewStockLevel(h))
  /\ req' = [req EXCEPT ![h].pc = "deleteBatch"]
  /\ UNCHANGED <<dbBatches, nextId, schemaUnique, clientVars>>

\* prisma.batch.delete({ where: { id: batchId } }); it throws when the row is gone.
DeleteBatch(h) ==
  /\ req[h].pc = "deleteBatch"
  /\ req[h].kind = "DELETE"
  /\ dbBatches' = {b \in dbBatches : b.id # req[h].batchId}
  /\ req' = Finish(h, IF DbHasBatch(req[h].batchId) THEN 204 ELSE 500)
  /\ UNCHANGED <<dbProducts, nextId, schemaUnique, clientVars>>

\* ------------------------------------------------- client: product store
\* the absent / empty expiry date ('' or undefined)
NoDate == 0
\* Default expiry: one year from the call (setFullYear(+1); 31536000000 ms).
YearDays == 365
CurrentBranchId == "b1"

\* updatedAll.filter(p => p.branchId === currentBranchId)
BranchView(all) == SelectSeq(all, LAMBDA p : p.branchId = CurrentBranchId)

BatchIndex(p, batchNumber) == FindIndex(p.batches, LAMBDA b : b.batchNumber = batchNumber)

\* `batch-${Date.now()}-...`: an id no other batch of the product has; local ids
\* are negative, the server's positive.
LocalBatchId(p) == 0 - (Len(p.batches) + 1)

\* _incrementStockLocal on one product (store.ts 403-446).
LocalReceive(p, batchNumber, quantity, expiryDate, costPrice) ==
  LET newBatch(bn) ==
        [id |-> LocalBatchId(p), batchNumber |-> bn, quantity |-> quantity,
         expiryDate |-> IF expiryDate # NoDate THEN expiryDate ELSE today + YearDays,
         costPrice |-> costPrice]
      idx == BatchIndex(p, batchNumber)
      updatedBatches ==
        IF batchNumber # "" /\ batchNumber # "DEFAULT"
        THEN IF idx >= 1
             THEN [p.batches EXCEPT ![idx].quantity = @ + quantity]
             ELSE Append(p.batches, newBatch(batchNumber))
        ELSE IF Len(p.batches) > 0
             THEN [p.batches EXCEPT ![1].quantity = @ + quantity]
             ELSE Append(p.batches, newBatch("DEFAULT"))
  IN [p EXCEPT !.stockLevel = @ + quantity, !.batches = updatedBatches]

RECURSIVE SeqMaxQty(_)
SeqMaxQty(s) == IF s = <<>> THEN 0 ELSE Max(Head(s).quantity, SeqMaxQty(Tail(s)))

\* The model's cap on the client's counters.
LocalHeadroom(id, quantity) ==
  \A i \in 1..Len(allProducts) :
    allProducts[i].id = id =>
      Max(allProducts[i].stockLevel, SeqMaxQty(allProducts[i].batches)) + quantity
        <= MaxStock

incrementStockLocal(id, batchNumber, quantity, expiryDate, costPrice) ==
  /\ call.pc = "idle"
  /\ LocalHeadroom(id, quantity)
  /\ LET updatedAll ==
           [i \in 1..Len(allProducts) |->
              IF allProducts[i].id = id
              THEN LocalReceive(allProducts[i], batchNumber, quantity, expiryDate,
                                costPrice)
              ELSE allProducts[i]]
     IN /\ allProducts' = updatedAll
        /\ products' = BranchView(updatedAll)
  /\ UNCHANGED <<dbVars, req, clock, call, uiVars>>

\* A write-off that subtracts without a floor.
RemoveNewQtyUnclamped(currentQty, quantity) == currentQty - quantity

\* Math.max(0, currentQty - quantity)
RemoveNewQty(currentQty, quantity) == Max(0, currentQty - quantity)
\* Math.max(0, p.stockLevel - quantity)
RemoveNewStock(stockLevel, quantity) == Max(0, stockLevel - quantity)

\* A write-off that drops the batch it has emptied.
LocalRemoveDropping(p, batchNumber, quantity) ==
  LET batchIndex == BatchIndex(p, batchNumber)
  IN IF batchIndex >= 1
     THEN [p EXCEPT
             !.stockLevel = RemoveNewStock(p.stockLevel, quantity),
             !.batches =
               IF RemoveNewQty(p.batches[batchIndex].quantity, quantity) = 0
               THEN SelectSeq(p.batches, LAMBDA b : b.batchNumber # batchNumber)
               ELSE [p.batches EXCEPT ![batchIndex].quantity =
                       RemoveNewQty(p.batches[batchIndex].quantity, quantity)]]
     ELSE p

\* removeBatchStock on one product (store.ts 461-484).
LocalRemove(p, batchNumber, quantity) ==
  LET batchIndex == BatchIndex(p, batchNumber)
  IN IF batchIndex >= 1
     THEN [p EXCEPT
             !.stockLevel = RemoveNewStock(p.stockLevel, quantity),
             !.batches = [p.batches EXCEPT ![batchIndex].quantity =
                            RemoveNewQty(p.batches[batchIndex].quantity, quantity)]]
     ELSE p

removeBatchStock(productId, batchNumber, quantity) ==
  /\ call.pc = "idle"
  /\ LET updatedAll ==
           [i \in 1..Len(allProducts) |->
              IF allProducts[i].id = productId
              THEN LocalRemove(allProducts[i], batchNumber, quantity)
              ELSE allProducts[i]]
     IN /\ allProducts' = updatedAll
        /\ products' = BranchView(updatedAll)
  /\ UNCHANGED <<dbVars, req, clock, call, uiVars>>

\* ------------------------------------------ client: fetchProducts (store.ts)
\* GET /products for the user's branch: rows newest first (createdAt desc), each
\* with its batches ordered by expiryDate ascending; rows of equal expiry come in
\* any order.
IsExpiryOrdered(s) == \A i \in 1..(Len(s) - 1) : s[i].expiryDate <= s[i + 1].expiryDate

ClientBatch(b) ==
  [id |-> b.id, batchNumber |-> b.batchNumber, expiryDate |-> b.expiryDate,
   quantity |-> b.quantity, costPrice |-> b.costPrice]

BatchListings(id) ==
  LET rows == DbBatchesOf(id)
      n == Cardinality(rows)
  IN {s \in [1..n -> {ClientBatch(b) : b \in rows}] :
        /\ \A i, j \in 1..n : i # j => s[i].id # s[j].id
        /\ IsExpiryOrdered(s)}

\* products.map(p => ({ ...p, batches: p.batches || [], stockLevel: p.stockLevel || 0 }))
Transformed(row, batches) ==
  [id |-> row.id, gtin |-> row.gtin, sku |-> row.sku, nameEn |-> row.nameEn,
   branchId |-> row.branchId, stockLevel |-> row.stockLevel, price |-> row.price,
   batches |-> batches]

RECURSIVE Reverse(_)
Reverse(s) == IF s = <<>> THEN <<>> ELSE Append(Reverse(Tail(s)), Head(s))

\* The catalogs GET /products can answer with, from the database as it is now.
Listings ==
  LET rows == Reverse(SelectSeq(dbProducts, LAMBDA r : r.branchId = UserBranch))
  IN {s \in [1..Len(rows) -> UNION {{Transformed(rows[i], bs) : bs \in BatchListings(rows[i].id)}
                                      : i \in 1..Len(rows)}] :
        \A i \in 1..Len(rows) : s[i].id = rows[i].id}

IdleCall ==
  [fn |-> "none", pc |-> "idle", caller |-> "none", productId |-> "none",
   data |-> NoData]

\* set({ allProducts: transformed, products: transformed.filter(...) })
FetchResolve ==
  /\ call.pc = "fetch"
  /\ \E transformed \in Listings :
       /\ allProducts' = transformed
       /\ products' = BranchView(transformed)
  /\ call' = [call EXCEPT !.pc = "returned"]
  /\ UNCHANGED <<dbVars, req, clock, uiVars>>

\* Fallback catalog of the catch branch (mockProducts of ./data).
MockProducts ==
  <<[id |-> "m1", gtin |-> "gm", sku |-> "sm", nameEn |-> "Mock", branchId |-> "b1",
     stockLevel |-> 1, price |-> 1,
     batches |-> <<[id |-> 0, batchNumber |-> "M-1", expiryDate |-> 120,
                    quantity |-> 1, costPrice |-> 1]>>]>>

\* catch: set({ allProducts: mockProducts, products: mockProducts.filter(...) })
FetchFail ==
  /\ call.pc = "fetch"
  /\ allProducts' = MockProducts
  /\ products' = BranchView(MockProducts)
  /\ call' = [call EXCEPT !.pc = "returned"]
  /\ UNCHANGED <<dbVars, req, clock, uiVars>>

\* ------------------------------------------ client: incrementStock (store.ts)
\* The handler serving this client's own requests.
ClientHandler == "h1"

\* batchData of incrementStock (store.ts 371-386).
BatchData(batchNumber, quantity, expiryDate, costPrice) ==
  [batchNumber |-> IF batchNumber # "" THEN batchNumber ELSE "DEFAULT",
   expiryDate |-> IF expiryDate # NoDate THEN expiryDate ELSE today + YearDays,
   quantity |-> quantity,
   costPrice |-> costPrice]

\* incrementStock up to its first await: api.createBatch is issued.
IncrementStockStarted(caller, id, batchNumber, quantity, expiryDate, costPrice) ==
  [fn |-> "incrementStock", pc |-> "createBatch", caller |-> caller, productId |-> id,
   data |-> BatchData(batchNumber, quantity, expiryDate, costPrice)]

incrementStock(id, batchNumber, quantity, expiryDate, costPrice) ==
  /\ call.pc = "idle"
  /\ call' = IncrementStockStarted("direct", id, batchNumber, quantity, expiryDate, costPrice)
  /\ UNCHANGED <<dbVars, req, clock, storeVars, uiVars>>

\* The request reaches the server.
CreateBatchSend ==
  /\ call.pc = "createBatch"
  /\ req[ClientHandler].pc = "idle"
  /\ Headroom(call.productId, call.data.quantity)
  /\ IdRoom
  /\ req' = PostArrived(ClientHandler, call.productId, call.data)
  /\ call' = [call EXCEPT !.pc = "awaitBatch"]
  /\ UNCHANGED <<dbVars, clock, storeVars, uiVars>>

\* The request fails in the network (fetch rejects): apiRequest throws.
CreateBatchFail ==
  /\ call.pc = "createBatch"
  /\ call' = [call EXCEPT !.pc = "threw"]
  /\ UNCHANGED <<dbVars, req, clock, storeVars, uiVars>>

\* The response arrives: !response.ok throws, otherwise fetchProducts is called.
CreateBatchRespond ==
  /\ call.pc = "awaitBatch"
  /\ req[ClientHandler].pc = "done"
  /\ call' = [call EXCEPT !.pc = IF req[ClientHandler].status \in {200, 201}
                                 THEN "fetch" ELSE "threw"]
  /\ req' = [req EXCEPT ![ClientHandler] = IdleReq]
  /\ UNCHANGED <<dbVars, clock, storeVars, uiVars>>

\* A call made outside handleSaveAll returns to its caller (or its rejection reaches it).
CallReturn ==
  /\ call.pc \in {"returned", "threw"}
  /\ call.caller = "direct"
  /\ call' = IdleCall
  /\ UNCHANGED <<dbVars, req, clock, storeVars, uiVars>>

\* ----------------------------------------- expiry analytics (pages/Expiry.tsx)
HoursPerDay == 24

\* new Date(batch.expiryDate): a date-only string is midnight UTC; in hours.
ExpiryInstant(expiryDate) == expiryDate * HoursPerDay

\* new Date() with setHours(0, 0, 0, 0): the local midnight of the current day.
TodayInstant == today * HoursPerDay - utcOffset

\* date-fns differenceInDays: the number of full days between, truncated toward zero.
differenceInDays(dateLeft, dateRight) ==
  IF dateLeft >= dateRight
  THEN (dateLeft - dateRight) \div HoursPerDay
  ELSE 0 - ((dateRight - dateLeft) \div HoursPerDay)

DaysRemaining(batch) == differenceInDays(ExpiryInstant(batch.expiryDate), TodayInstant)

\* A classifier whose first two tiers are exchanged.
StatusOfExchanged(daysRemaining) ==
  IF daysRemaining <= 30 THEN "WARNING"
  ELSE IF daysRemaining <= 60 THEN "CRITICAL"
  ELSE IF daysRemaining <= 90 THEN "WATCH"
  ELSE "GOOD"

\* A classifier with the boundaries in the less urgent tier.
StatusOfExclusive(daysRemaining) ==
  IF daysRemaining < 30 THEN "CRITICAL"
  ELSE IF daysRemaining < 60 THEN "WARNING"
  ELSE IF daysRemaining < 90 THEN "WATCH"
  ELSE "GOOD"

\* let status = 'GOOD'; if (<= 30) CRITICAL; else if (<= 60) WARNING; else if (<= 90) WATCH
StatusOf(daysRemaining) ==
  IF daysRemaining <= 30 THEN "CRITICAL"
  ELSE IF daysRemaining <= 60 THEN "WARNING"
  ELSE IF daysRemaining <= 90 THEN "WATCH"
  ELSE "GOOD"

\* A classifier that skips no batch.
IsSkippedNever(batch) == FALSE

\* if (batch.quantity <= 0) return;
IsSkipped(batch) == batch.quantity <= 0

\* The item pushed for one batch.
ExpiryItem(product, batch) ==
  [id |-> <<product.id, batch.id>>,
   product |-> product,
   batch |-> batch,
   daysRemaining |-> DaysRemaining(batch),
   status |-> StatusOf(DaysRemaining(batch)),
   valueAtRisk |-> batch.quantity * batch.costPrice]

RECURSIVE BatchItems(_, _)
\* product.batches.forEach: the items of one product, in batch order.
BatchItems(product, batches) ==
  IF batches = <<>> THEN <<>>
  ELSE (IF IsSkipped(Head(batches)) THEN <<>>
        ELSE <<ExpiryItem(product, Head(batches))>>)
       \o BatchItems(product, Tail(batches))

RECURSIVE PushedItems(_)
\* products.forEach: the items in the order they are pushed.
PushedItems(prods) ==
  IF prods = <<>> THEN <<>>
  ELSE BatchItems(Head(prods), Head(prods).batches) \o PushedItems(Tail(prods))

NoBucket == [count |-> 0, value |-> 0]
EmptyStats == [CRITICAL |-> NoBucket, WARNING |-> NoBucket, WATCH |-> NoBucket,
               ALL |-> NoBucket]

Bump(bucket, item) ==
  [count |-> bucket.count + 1, value |-> bucket.value + item.valueAtRisk]

\* An aggregation that files every item under ALL only.
AggregateAllOnly(stats, item) == [stats EXCEPT !.ALL = Bump(@, item)]

\* stats.ALL gets every item; stats[status] gets it unless the status is GOOD.
Aggregate(stats, item) ==
  LET all == [stats EXCEPT !.ALL = Bump(@, item)]
  IN IF item.status # "GOOD"
     THEN [all EXCEPT ![item.status] = Bump(@, item)]
     ELSE all

RECURSIVE StatsAfter(_, _)
StatsAfter(stats, pushed) ==
  IF pushed = <<>> THEN stats
  ELSE StatsAfter(Aggregate(stats, Head(pushed)), Tail(pushed))

\* A sort step that leaves the items in the order they were pushed.
InsertAtEnd(sorted, item) == Append(sorted, item)

\* One step of the stable sort: item goes behind every item that does not come
\* after it.
InsertByDays(sorted, item) ==
  LET n == Cardinality({i \in 1..Len(sorted) :
                          sorted[i].daysRemaining <= item.daysRemaining})
  IN SubSeq(sorted, 1, n) \o <<item>> \o SubSeq(sorted, n + 1, Len(sorted))

RECURSIVE SortByDays(_, _)
\* items.sort((a, b) => a.daysRemaining - b.daysRemaining)
SortByDays(sorted, rest) ==
  IF rest = <<>> THEN sorted
  ELSE SortByDays(InsertByDays(sorted, Head(rest)), Tail(rest))

\* A classifier whose stats object outlives the evaluation: every evaluation
\* counts onto the totals of the one before.
useExpiryStatsAccumulating(prods) ==
  [stats |-> StatsAfter(memo.stats, PushedItems(prods)),
   items |-> SortByDays(<<>>, PushedItems(prods))]

\* The value useMemo caches: { stats, items } for one products array.
useExpiryStats(prods) ==
  [stats |-> StatsAfter(EmptyStats, PushedItems(prods)),
   items |-> SortByDays(<<>>, PushedItems(prods))]

\* Nothing computed yet (the page has not rendered).
NoMemo == [valid |-> FALSE, deps |-> <<>>, stats |-> EmptyStats, items |-> <<>>]

\* A render of the expiry page that computes: on mount, or when the products
\* array is a new one.
render ==
  /\ memo' = [valid |-> TRUE, deps |-> products,
              stats |-> useExpiryStats(products).stats,
              items |-> useExpiryStats(products).items]
  /\ memo' # memo
  /\ UNCHANGED <<dbVars, req, clock, storeVars, call, gridData, isSaving, save,
                 rowSeq, scans, retVars, posVars>>

\* ------------------------------------- Expiry: return to vendor (Expiry.tsx)
\* useState(null) holds no item; a selection holds one.
NoItem == <<>>

NoTimeout == [pending |-> FALSE, productId |-> "", batchNumber |-> "", quantity |-> 0]

\* The four hooks as the page mounts them (102-105), and no timer.
ReturnClosed ==
  /\ isReturnModalOpen = FALSE
  /\ selectedReturnItem = NoItem
  /\ returnQty = 0
  /\ isSubmittingReturn = FALSE
  /\ returnTimeout = NoTimeout

\* {isReturnModalOpen && selectedReturnItem && (...)}: the overlay is on screen.
ModalShown == isReturnModalOpen /\ selectedReturnItem # NoItem

\* The table under the overlay takes no click; its rows are the last render's.
TableShown == memo.valid /\ memo.deps = products /\ ~ModalShown

\* The Return button of a row: only CRITICAL rows have one (366-373).
initiateReturn(i) ==
  /\ TableShown
  /\ i \in 1..Len(memo.items)
  /\ memo.items[i].status = "CRITICAL"
  /\ selectedReturnItem' = <<memo.items[i]>>
  /\ returnQty' = memo.items[i].batch.quantity
  /\ isReturnModalOpen' = TRUE
  /\ UNCHANGED <<dbVars, req, clock, storeVars, call, gridData, isSaving, save,
                 rowSeq, scans, memo, isSubmittingReturn, returnTimeout, posVars>>

Min(a, b) == IF a <= b THEN a ELSE b

\* Math.min(parseInt(e.target.value) || 0, selectedReturnItem.batch.quantity);
\* text that parses to no number arrives as 0.
ClampedQty(value, item) == Min(value, item.batch.quantity)

\* The quantity input's onChange (505-511); the input is never disabled.
setReturnQty(value) ==
  /\ ModalShown
  /\ returnQty' = ClampedQty(value, selectedReturnItem[1])
  /\ UNCHANGED <<dbVars, req, clock, storeVars, call, gridData, isSaving, save,
                 rowSeq, scans, memo, isReturnModalOpen, selectedReturnItem,
                 isSubmittingReturn, returnTimeout, posVars>>

\* The header's X (473): onClick={() => setIsReturnModalOpen(false)}, no disabled.
closeModal ==
  /\ ModalShown
  /\ isReturnModalOpen' = FALSE
  /\ UNCHANGED <<dbVars, req, clock, storeVars, call, gridData, isSaving, save,
                 rowSeq, scans, memo, selectedReturnItem, returnQty,
                 isSubmittingReturn, returnTimeout, posVars>>

\* The footer's Cancel (537): the same handler, disabled={isSubmittingReturn}.
cancelReturn ==
  /\ ModalShown
  /\ ~isSubmittingReturn
  /\ isReturnModalOpen' = FALSE
  /\ UNCHANGED <<dbVars, req, clock, storeVars, call, gridData, isSaving, save,
                 rowSeq, scans, memo, selectedReturnItem, returnQty,
                 isSubmittingReturn, returnTimeout, posVars>>

\* if (!selectedReturnItem || returnQty <= 0) return;
ConfirmRejected(item, qty) == item = NoItem \/ qty <= 0

\* A confirmation that always submits.
ConfirmEffectUnchecked(item, qty, submitting, timeout) ==
  <<TRUE, [pending |-> TRUE,
           productId |-> IF item = NoItem THEN "" ELSE item[1].product.id,
           batchNumber |-> IF item = NoItem THEN "" ELSE item[1].batch.batchNumber,
           quantity |-> qty]>>

\* What confirmReturn leaves in <<isSubmittingReturn, returnTimeout>> (137-155): the
\* timer's closure holds the item and the quantity of the render that was clicked.
ConfirmEffect(item, qty, submitting, timeout) ==
  IF ConfirmRejected(item, qty)
  THEN <<submitting, timeout>>
  ELSE <<TRUE, [pending |-> TRUE, productId |-> item[1].product.id,
                batchNumber |-> item[1].batch.batchNumber, quantity |-> qty]>>

\* The Confirm button: disabled={isSubmittingReturn || returnQty <= 0}.
ConfirmEnabled == ModalShown /\ ~(isSubmittingReturn \/ returnQty <= 0)

confirmReturn ==
  /\ ConfirmEnabled
  /\ LET after == ConfirmEffect(selectedReturnItem, returnQty, isSubmittingReturn,
                                returnTimeout)
     IN /\ isSubmittingReturn' = after[1]
        /\ returnTimeout' = after[2]
  /\ UNCHANGED <<dbVars, req, clock, storeVars, call, gridData, isSaving, save,
                 rowSeq, scans, memo, isReturnModalOpen, selectedReturnItem,
                 returnQty, posVars>>

\* set(state => ...) of removeBatchStock (460-489): the master list after the call.
RemovedFrom(all, productId, batchNumber, quantity) ==
  [i \in 1..Len(all) |->
     IF all[i].id = productId
     THEN LocalRemove(all[i], batchNumber, quantity)
     ELSE all[i]]

\* The setTimeout callback (143-154): the write-off, then the three resets.
returnTimeoutFired ==
  /\ returnTimeout.pending
  /\ allProducts' = RemovedFrom(allProducts, returnTimeout.productId,
                                returnTimeout.batchNumber, returnTimeout.quantity)
  /\ products' = BranchView(allProducts')
  /\ isSubmittingReturn' = FALSE
  /\ isReturnModalOpen' = FALSE
  /\ selectedReturnItem' = NoItem
  /\ returnTimeout' = NoTimeout
  /\ UNCHANGED <<dbVars, req, clock, call, gridData, isSaving, save, rowSeq, scans,
                 memo, returnQty, posVars>>

\* ----------------------------------------------------------------- Init
StartDays == {100}

SeedProducts ==
  <<[id |-> "p1", gtin |-> "g1", sku |-> "s1", nameEn |-> "N1", branchId |-> "b1",
     stockLevel |-> 1, price |-> 1],
    [id |-> "p2", gtin |-> "g2", sku |-> "s2", nameEn |-> "N2", branchId |-> "b1",
     stockLevel |-> 0, price |-> 1]>>

IdleSave == [pc |-> "idle", i |-> 0, entries |-> <<>>, catalog |-> <<>>]

ScanIds == {"g1", "s2", "x1"}
NoScans == [x \in ScanIds |-> 0]

\* -------------------------------------------- server: POST /products
\* createProductSchema: sku and nameEn non-empty, price positive, stockLevel >= 0
\* (category is always sent non-empty by the client).
ValidProduct(data) ==
  /\ data.sku # ""
  /\ data.nameEn # ""
  /\ data.price > 0
  /\ data.stockLevel >= 0

\* The model's cap on created products.
ProductRoom == Len(dbProducts) < Len(SeedProducts) + MaxNewProducts

\* The request as the handler first sees it (createProductSchema.parse).
ProductArrived(h, data) ==
  [req EXCEPT ![h] =
     IF ValidProduct(data)
     THEN [IdleReq EXCEPT !.kind = "PRODUCT", !.pc = "findGtin", !.data = data]
     ELSE [IdleReq EXCEPT !.kind = "PRODUCT", !.pc = "done", !.status = 400,
                          !.data = data]]

\* if (data.gtin) findUnique({ gtin }): 409 when a product carries it.
ProductFindGtin(h) ==
  /\ req[h].pc = "findGtin"
  /\ req' = IF req[h].data.gtin # ""
               /\ \E i \in 1..Len(dbProducts) : dbProducts[i].gtin = req[h].data.gtin
            THEN Finish(h, 409)
            ELSE [req EXCEPT ![h].pc = "createProduct"]
  /\ UNCHANGED <<dbVars, clientVars>>

\* The row prisma.product.create writes: the payload under a fresh id, no batches.
NewProductRow(h) ==
  [id |-> "n" \o ToString(Len(dbProducts) - Len(SeedProducts) + 1),
   gtin |-> req[h].data.gtin, sku |-> req[h].data.sku, nameEn |-> req[h].data.nameEn,
   branchId |-> UserBranch, stockLevel |-> req[h].data.stockLevel,
   price |-> req[h].data.price]

\* prisma.product.create; a gtin taken in the meantime violates the unique index.
ProductCreate(h) ==
  /\ req[h].pc = "createProduct"
  /\ IF req[h].data.gtin # ""
        /\ \E i \in 1..Len(dbProducts) : dbProducts[i].gtin = req[h].data.gtin
     THEN /\ req' = Finish(h, 500)
          /\ UNCHANGED dbProducts
     ELSE /\ dbProducts' = Append(dbProducts, NewProductRow(h))
          /\ req' = [req EXCEPT ![h].pc = "done", ![h].status = 201,
                                ![h].productId = NewProductRow(h).id]
  /\ UNCHANGED <<dbBatches, nextId, schemaUnique, clientVars>>

\* ---------------------------------------------- client: addProduct (store.ts)
\* api.createProduct strips id, branchId and batches from the product it sends.
ProductData(gtin, sku, nameEn, price, stockLevel) ==
  [gtin |-> gtin, sku |-> sku, nameEn |-> nameEn, price |-> price,
   stockLevel |-> stockLevel]

AddProductStarted(caller, data) ==
  [fn |-> "addProduct", pc |-> "createProduct", caller |-> caller,
   productId |-> "none", data |-> data]

CreateProductSend ==
  /\ call.pc = "createProduct"
  /\ req[ClientHandler].pc = "idle"
  /\ ProductRoom
  /\ req' = ProductArrived(ClientHandler, call.data)
  /\ call' = [call EXCEPT !.pc = "awaitProduct"]
  /\ UNCHANGED <<dbVars, clock, storeVars, uiVars>>

CreateProductFail ==
  /\ call.pc = "createProduct"
  /\ call' = [call EXCEPT !.pc = "threw"]
  /\ UNCHANGED <<dbVars, req, clock, storeVars, uiVars>>

\* The created product as the response carries it, with batches: [] filled in.
CreatedProduct ==
  [id |-> req[ClientHandler].productId, gtin |-> call.data.gtin, sku |-> call.data.sku,
   nameEn |-> call.data.nameEn, branchId |-> UserBranch,
   stockLevel |-> call.data.stockLevel, price |-> call.data.price, batches |-> <<>>]

\* 201: the product is put in front of both lists; otherwise the call throws.
CreateProductRespond ==
  /\ call.pc = "awaitProduct"
  /\ req[ClientHandler].pc = "done"
  /\ IF req[ClientHandler].status = 201
     THEN /\ allProducts' = <<CreatedProduct>> \o allProducts
          /\ products' = <<CreatedProduct>> \o products
          /\ call' = [call EXCEPT !.pc = "returned"]
     ELSE /\ call' = [call EXCEPT !.pc = "threw"]
          /\ UNCHANGED storeVars
  /\ req' = [req EXCEPT ![ClientHandler] = IdleReq]
  /\ UNCHANGED <<dbVars, clock, uiVars>>

\* ------------------------------------- stock-entry grid (pages/StockEntry.tsx)
\* createEmptyRow(barcode); the fields that no logic reads (category, unit,
\* location, supplierId) are left out.
createEmptyRow(id, barcode) ==
  [id |-> id, gtin |-> barcode, productName |-> "", batchNumber |-> "",
   expiryDate |-> NoDate, quantity |-> 1, costPrice |-> 0, sellingPrice |-> 0,
   isHighlighted |-> FALSE]

\* result.gtin || result.rawData || code
ScannedCode(code, result) ==
  IF result.gtin # "" THEN result.gtin
  ELSE IF result.rawData # "" THEN result.rawData
  ELSE code

\* allProducts.find(p => p.gtin === c || p.id === c || p.sku === c), 0 when none
MasterIndex(all, c) ==
  FindIndex(all, LAMBDA p : p.gtin = c \/ p.id = c \/ p.sku = c)

\* A scan that never finds its row.
ExistingRowIndexNever(prevData, scannedCode) == 0

\* prevData.findIndex(row => row.gtin === scannedCode), 0 when none
ExistingRowIndex(prevData, scannedCode) ==
  FindIndex(prevData, LAMBDA row : row.gtin = scannedCode)

\* The row of a first scan: blank, pre-filled from the catalog product when the
\* code is known, batch and expiry taken from the scan only then.
ScannedRow(id, all, scannedCode, result) ==
  LET newRow == createEmptyRow(id, scannedCode)
      m == MasterIndex(all, scannedCode)
  IN IF m = 0 THEN newRow
     ELSE [newRow EXCEPT
             !.productName = all[m].nameEn,
             !.costPrice = IF all[m].batches # <<>> THEN all[m].batches[1].costPrice
                           ELSE 0,
             !.sellingPrice = all[m].price,
             !.batchNumber = IF result.batchNumber # "" THEN result.batchNumber ELSE @,
             !.expiryDate = IF result.expiryDate # NoDate THEN result.expiryDate ELSE @]

\* An updater that moves the row of a duplicate scan to the top.
ScanGridToTop(prevData, id, all, scannedCode, result) ==
  LET existingRowIndex == ExistingRowIndex(prevData, scannedCode)
  IN IF existingRowIndex >= 1
     THEN <<[prevData[existingRowIndex] EXCEPT !.quantity = @ + 1, !.isHighlighted = TRUE]>>
          \o SelectSeq(prevData, LAMBDA row : row # prevData[existingRowIndex])
     ELSE <<ScannedRow(id, all, scannedCode, result)>> \o prevData

\* An updater that puts the row of a first scan at the bottom.
ScanGridAppend(prevData, id, all, scannedCode, result) ==
  LET existingRowIndex == ExistingRowIndex(prevData, scannedCode)
  IN IF existingRowIndex >= 1
     THEN [prevData EXCEPT ![existingRowIndex] =
             [@ EXCEPT !.quantity = @ + 1, !.isHighlighted = TRUE]]
     ELSE prevData \o <<ScannedRow(id, all, scannedCode, result)>>

\* The updater handleScan passes to setGridData.
ScanGrid(prevData, id, all, scannedCode, result) ==
  LET existingRowIndex == ExistingRowIndex(prevData, scannedCode)
  IN IF existingRowIndex >= 1
     THEN [prevData EXCEPT ![existingRowIndex] =
             [@ EXCEPT !.quantity = @ + 1, !.isHighlighted = TRUE]]
     ELSE <<ScannedRow(id, all, scannedCode, result)>> \o prevData

RowId(n) == "r" \o ToString(n)

\* The model's caps on the grid's length and on the scans of one identity.
ScanRoom(scannedCode) ==
  /\ scans[scannedCode] < MaxScans
  /\ ExistingRowIndex(gridData, scannedCode) = 0 => Len(gridData) < MaxRows

handleScan(code, result) ==
  LET scannedCode == ScannedCode(code, result)
  IN /\ ScanRoom(scannedCode)
     /\ gridData' = ScanGrid(gridData, RowId(rowSeq + 1), allProducts, scannedCode, result)
     /\ rowSeq' = IF ExistingRowIndex(gridData, scannedCode) = 0 THEN rowSeq + 1
                  ELSE rowSeq
     /\ scans' = [scans EXCEPT ![scannedCode] = @ + 1]
     /\ UNCHANGED <<dbVars, req, clock, storeVars, call, isSaving, save, memo, retVars, posVars>>

\* The 100 ms timer of a duplicate scan: the row's highlight is removed.
unhighlight(id) ==
  /\ \E i \in 1..Len(gridData) : gridData[i].id = id /\ gridData[i].isHighlighted
  /\ gridData' = [i \in 1..Len(gridData) |->
                    IF gridData[i].id = id
                    THEN [gridData[i] EXCEPT !.isHighlighted = FALSE]
                    ELSE gridData[i]]
  /\ UNCHANGED <<dbVars, req, clock, storeVars, call, isSaving, save, rowSeq, scans, memo, retVars, posVars>>

\* An edit that writes the cell on every row of the grid.
updateRowEvery(id, field, value) ==
  /\ \E i \in 1..Len(gridData) : gridData[i].id = id /\ gridData[i][field] # value
  /\ gridData' = [i \in 1..Len(gridData) |-> [gridData[i] EXCEPT ![field] = value]]
  /\ UNCHANGED <<dbVars, req, clock, storeVars, call, isSaving, save, rowSeq, scans, memo, retVars, posVars>>

\* updateRow(id, field, value): one cell of one row is overwritten.
updateRow(id, field, value) ==
  /\ \E i \in 1..Len(gridData) : gridData[i].id = id /\ gridData[i][field] # value
  /\ gridData' = [i \in 1..Len(gridData) |->
                    IF gridData[i].id = id
                    THEN [gridData[i] EXCEPT ![field] = value]
                    ELSE gridData[i]]
  /\ UNCHANGED <<dbVars, req, clock, storeVars, call, isSaving, save, rowSeq, scans, memo, retVars, posVars>>

deleteRow(id) ==
  /\ \E i \in 1..Len(gridData) : gridData[i].id = id
  /\ gridData' = SelectSeq(gridData, LAMBDA row : row.id # id)
  /\ UNCHANGED <<dbVars, req, clock, storeVars, call, isSaving, save, rowSeq, scans, memo, retVars, posVars>>

\* The "add row" button: setGridData([createEmptyRow(), ...gridData])
addRow ==
  /\ Len(gridData) < MaxRows
  /\ gridData' = <<createEmptyRow(RowId(rowSeq + 1), "")>> \o gridData
  /\ rowSeq' = rowSeq + 1
  /\ UNCHANGED <<dbVars, req, clock, storeVars, call, isSaving, save, scans, memo, retVars, posVars>>

\* The "clear" button, disabled on an empty grid: setGridData([])
clearGrid ==
  /\ gridData # <<>>
  /\ gridData' = <<>>
  /\ UNCHANGED <<dbVars, req, clock, storeVars, call, isSaving, save, rowSeq, scans, memo, retVars, posVars>>

\* ---------------------------------------------- handleSaveAll (StockEntry.tsx)
\* allProducts.find(p => p.gtin === entry.gtin || p.nameEn === entry.productName)
ExistingIndex(catalog, entry) ==
  FindIndex(catalog, LAMBDA p : p.gtin = entry.gtin \/ p.nameEn = entry.productName)

RECURSIVE NextEntry(_, _)
\* The loop's next row at or after i that is not skipped (Len + 1 when none).
NextEntry(entries, i) ==
  IF i > Len(entries) THEN i
  ELSE IF entries[i].productName = "" THEN NextEntry(entries, i + 1)
  ELSE i

FetchStarted(caller) ==
  [IdleCall EXCEPT !.fn = "fetchProducts", !.pc = "fetch", !.caller = caller]

\* The store call the loop awaits at row i; past the last row, the final refresh.
SaveCall(entries, catalog, i) ==
  IF i > Len(entries) THEN FetchStarted("saveAll")
  ELSE LET entry == entries[i]
           e == ExistingIndex(catalog, entry)
       IN IF e >= 1
          THEN IncrementStockStarted("saveAll", catalog[e].id,
                 IF entry.batchNumber # "" THEN entry.batchNumber ELSE "DEFAULT",
                 entry.quantity, entry.expiryDate, entry.costPrice)
          ELSE AddProductStarted("saveAll",
                 ProductData(entry.gtin,
                             IF entry.gtin # "" THEN entry.gtin ELSE "SKU-t",
                             entry.productName, entry.sellingPrice, entry.quantity))

\* The click on "save", confirmed: the handler runs to its first await over the
\* gridData and allProducts of the render it was created in.
handleSaveAll ==
  /\ save.pc = "idle"
  /\ call.pc = "idle"
  /\ gridData # <<>>
  /\ ~isSaving
  /\ isSaving' = TRUE
  /\ LET i == NextEntry(gridData, 1)
     IN /\ save' = [pc |-> "running", i |-> i, entries |-> gridData,
                    catalog |-> allProducts]
        /\ call' = SaveCall(gridData, allProducts, i)
  /\ UNCHANGED <<dbVars, req, clock, storeVars, gridData, rowSeq, scans, memo, retVars, posVars>>

\* After addProduct the handler looks the new product up in the same allProducts
\* and, if it finds it under a named batch, receives the batch separately.
FollowUpCall(entries, catalog, i) ==
  LET entry == entries[i]
      n == ExistingIndex(catalog, entry)
  IN IF n >= 1 /\ entry.batchNumber \notin {"", "DEFAULT"}
     THEN IncrementStockStarted("saveAll", catalog[n].id, entry.batchNumber,
                                entry.quantity, entry.expiryDate, entry.costPrice)
     ELSE IdleCall

\* A loop that goes on as soon as its call has been sent.
AwaitSent(c) == c.caller = "saveAll" /\ c.pc \in {"returned", "awaitBatch", "awaitProduct"}

\* await: the handler resumes when the promise of its call has resolved.
AwaitResolved(c) == c.caller = "saveAll" /\ c.pc = "returned"

\* An awaited call of the loop has resolved: the loop goes on to its next await.
SaveContinue ==
  /\ save.pc = "running"
  /\ AwaitResolved(call)
  /\ save.i <= Len(save.entries)
  /\ IF call.fn = "addProduct" /\ FollowUpCall(save.entries, save.catalog, save.i) # IdleCall
     THEN /\ call' = FollowUpCall(save.entries, save.catalog, save.i)
          /\ UNCHANGED save
     ELSE LET i == NextEntry(save.entries, save.i + 1)
          IN /\ save' = [save EXCEPT !.i = i]
             /\ call' = SaveCall(save.entries, save.catalog, i)
  /\ UNCHANGED <<dbVars, req, clock, storeVars, gridData, isSaving, rowSeq, scans, memo, retVars, posVars>>

\* The final refresh has resolved: setIsSaving(false); setGridData([]); navigate.
SaveFinish ==
  /\ save.pc = "running"
  /\ AwaitResolved(call)
  /\ save.i > Len(save.entries)
  /\ isSaving' = FALSE
  /\ gridData' = <<>>
  /\ save' = IdleSave
  /\ call' = IdleCall
  /\ UNCHANGED <<dbVars, req, clock, storeVars, rowSeq, scans, memo, retVars, posVars>>

\* A catch block that only reports: the saving flag stays set.
SaveCatchKeepsSaving ==
  /\ save.pc = "running"
  /\ call.caller = "saveAll"
  /\ call.pc = "threw"
  /\ save' = IdleSave
  /\ call' = IdleCall
  /\ UNCHANGED <<dbVars, req, clock, storeVars, gridData, isSaving, rowSeq, scans, memo, retVars, posVars>>

\* An awaited call has thrown: catch { setIsSaving(false); alert(...) }.
SaveCatch ==
  /\ save.pc = "running"
  /\ call.caller = "saveAll"
  /\ call.pc = "threw"
  /\ isSaving' = FALSE
  /\ save' = IdleSave
  /\ call' = IdleCall
  /\ UNCHANGED <<dbVars, req, clock, storeVars, gridData, rowSeq, scans, memo, retVars, posVars>>


\* A seeded database (prisma/seed.mjs: each product's stockLevel is its batches' sum)
\* and a client that has fetched it.
InitCore ==
  /\ today \in StartDays
  /\ dbProducts = SeedProducts
  /\ dbBatches = {[id |-> 1, productId |-> "p1", batchNumber |-> "L1",
                   expiryDate |-> today + 20, quantity |-> 1, costPrice |-> 1]}
  /\ nextId = 2
  /\ schemaUnique \in BOOLEAN
  /\ req = [h \in Handlers |-> IdleReq]
  /\ allProducts \in Listings
  /\ products = BranchView(allProducts)
  /\ call = IdleCall
  /\ isSaving = FALSE
  /\ save = IdleSave
  /\ scans = NoScans
  /\ memo = NoMemo
  /\ activeScan = <<>>
  /\ scannedItems = <<>>
  /\ syncLogs = <<>>
  /\ items = <<>>
  /\ addRun = [key |-> <<>>, n |-> 0, fresh |-> FALSE]
  /\ ReturnClosed
  /\ utcOffset = 0

\* The stock-entry page opens with an empty grid.
InitLedger ==
  /\ InitCore
  /\ gridData = <<>>
  /\ rowSeq = 0

\* No call and no request is in flight.
Quiet ==
  /\ call.pc = "idle"
  /\ \A h \in Handlers : req[h].pc = "idle"
  /\ save.pc = "idle"

\* One database call of a POST handler.
ServerStep(h) ==
  \/ FindProduct(h)
  \/ PostFindBatch(h)
  \/ PostWriteBatch(h)
  \/ PostWriteProduct(h)

\* One database call of a PATCH or DELETE handler.
AdminStep(h) ==
  \/ FindBatchById(h)
  \/ PatchWriteBatch(h)
  \/ PatchWriteProduct(h)
  \/ DeleteWriteProduct(h)
  \/ DeleteBatch(h)

\* fetchProducts called on its own (page load, refresh).
fetchProducts ==
  /\ call.pc = "idle"
  /\ call' = [IdleCall EXCEPT !.fn = "fetchProducts", !.pc = "fetch", !.caller = "direct"]
  /\ UNCHANGED <<dbVars, req, clock, storeVars, uiVars>>

\* Inputs of the ledger's operations: an existing and a missing product.
Targets == {"p1", "p9"}
ReceiveNumbers == {"", "L1"}

\* Receive and return/write-off calls, one at a time.
NextLedger ==
  \/ Quiet /\ \E id \in Targets, bn \in ReceiveNumbers, q \in 0..MaxQty, c \in {0, 1} :
                incrementStock(id, bn, q, NoDate, c)
  \/ CreateBatchSend
  \/ CreateBatchFail
  \/ CreateBatchRespond
  \/ FetchResolve
  \/ FetchFail
  \/ CallReturn
  \/ \E h \in Handlers : ServerStep(h)
  \/ Quiet /\ \E id \in Targets, bn \in ReceiveNumbers \cup {"DEFAULT", "L2"}, q \in 1..MaxQty :
                incrementStockLocal(id, bn, q, NoDate, 1)
  \/ Quiet /\ \E id \in Targets, bn \in BatchNumbers, q \in 1..MaxQty :
                removeBatchStock(id, bn, q)

SpecLedger == InitLedger /\ [][NextLedger]_vars

\* ------------------------------------------------- quantities and identity
Conserved(p) == p.stockLevel = SumQty(p.batches)
DbConserved(id) == DbProduct(id).stockLevel = SetSumQty(DbBatchesOf(id))

\* C1 (Conservation): after every receive and every return/write-off call, each
\* product's stockLevel equals the sum of its batches' quantities, in the client's
\* store and in the database.
C1_Conservation ==
  Quiet =>
    /\ \A i \in 1..Len(allProducts) : Conserved(allProducts[i])
    /\ \A i \in 1..Len(dbProducts) : DbConserved(dbProducts[i].id)

\* The batches of a product carry pairwise-distinct batch numbers.
DistinctNumbers(batches) ==
  \A i, j \in 1..Len(batches) :
    i # j => batches[i].batchNumber # batches[j].batchNumber

DbDistinctNumbers ==
  \A a, b \in dbBatches :
    (a.productId = b.productId /\ a.batchNumber = b.batchNumber) => a.id = b.id

\* A local receive under a number the product already has adds no batch and adds
\* the quantity to the batch of that number.
LocalReceiveHitsExisting(p, bn, q) ==
  LET idx == BatchIndex(p, bn)
      r == LocalReceive(p, bn, q, NoDate, 1)
  IN idx >= 1 =>
       /\ Len(r.batches) = Len(p.batches)
       /\ r.batches[idx].quantity = p.batches[idx].quantity + q

\* C4 (Batch identity stability): in any sequence of non-concurrent receive calls,
\* a receive whose batchNumber a batch of the product already carries adds no batch
\* and increments that batch, so batch numbers stay pairwise distinct.
C4_BatchIdentityStable ==
  /\ \A i \in 1..Len(allProducts) : DistinctNumbers(allProducts[i].batches)
  /\ DbDistinctNumbers
  /\ \A h \in Handlers :
       (req[h].kind = "POST" /\ req[h].pc = "writeBatch" /\ req[h].existingId = 0) =>
         ~\E b \in DbBatchesOf(req[h].productId) : b.batchNumber = req[h].data.batchNumber
  /\ \A i \in 1..Len(allProducts), bn \in BatchNumbers, q \in 1..MaxQty :
       LocalReceiveHitsExisting(allProducts[i], bn, q)

\* --------------------------------------------------- concurrent receives
\* Two sessions post to the same product at once; each handler serves one request
\* and keeps its response.
PostData(bn, q) ==
  [batchNumber |-> bn, expiryDate |-> today + 20, quantity |-> q, costPrice |-> 1]

NextConcurrent ==
  \/ \E h \in Handlers, bn \in {"L1", "L2"}, q \in 1..MaxQty :
       PostArrive(h, "p1", PostData(bn, q))
  \/ \E h \in Handlers : FindProduct(h)
  \/ \E h \in Handlers : PostFindBatch(h)
  \/ \E h \in Handlers : PostWriteBatch(h)
  \/ \E h \in Handlers : PostWriteProduct(h)
  \/ fetchProducts
  \/ FetchResolve
  \/ FetchFail
  \/ CallReturn

SpecConcurrent == InitLedger /\ [][NextConcurrent]_vars

AllDone == \A h \in Handlers : req[h].pc = "done"
Succeeded(h) == req[h].pc = "done" /\ req[h].status \in {200, 201}

RECURSIVE ReceivedQty(_)
\* The quantity the successful requests of the handlers in H carried.
ReceivedQty(H) ==
  IF H = {} THEN 0
  ELSE LET h == CHOOSE x \in H : TRUE
       IN (IF Succeeded(h) THEN req[h].data.quantity ELSE 0) + ReceivedQty(H \ {h})

SeedStock == SeedProducts[1].stockLevel

\* C2 (no lost update): after two concurrently handled receives of one product have
\* completed, its stockLevel is the initial level plus both quantities, and equals
\* the sum of its batch quantities.
C2_NoLostUpdate ==
  (AllDone /\ \A h \in Handlers : Succeeded(h)) =>
    /\ DbProduct("p1").stockLevel = SeedStock + ReceivedQty(Handlers)
    /\ DbConserved("p1")

\* C5 (at most one batch per number): after two concurrent receives carrying the
\* same, not yet existing batch number have completed, the product has exactly one
\* batch of that number, holding the sum of both quantities.
C5_OneBatchPerNumber ==
  (AllDone /\ \A h \in Handlers : req[h].data.batchNumber = "L2") =>
    \E b \in DbBatchesOf("p1") :
      /\ b.batchNumber = "L2"
      /\ b.quantity = req["h1"].data.quantity + req["h2"].data.quantity
      /\ \A c \in DbBatchesOf("p1") : c.batchNumber = "L2" => c = b

\* ------------------------------------------------------- non-negativity
\* Receives, write-offs, batch updates and batch deletes, one at a time.
NextAdmin ==
  \/ Quiet /\ \E bn \in {"L1", "L2"}, q \in 0..MaxQty :
                PostArrive("h2", "p1", PostData(bn, q))
  \/ Quiet /\ \E id \in Targets, bid \in 1..MaxBatchId, q \in 0..MaxQty,
                 given \in {{"quantity"}, {"costPrice"}, {}} :
                PatchArrive("h2", id, bid, PostData("", q), given)
  \/ Quiet /\ \E id \in Targets, bid \in 1..MaxBatchId : DeleteArrive("h2", id, bid)
  \/ \E h \in Handlers : ServerStep(h)
  \/ \E h \in Handlers : AdminStep(h)
  \/ Respond("h2")
  \/ Quiet /\ fetchProducts
  \/ FetchResolve
  \/ FetchFail
  \/ CallReturn
  \/ Quiet /\ \E id \in Targets, bn \in BatchNumbers, q \in 1..(MaxQty + 1) :
                removeBatchStock(id, bn, q)

SpecAdmin == InitLedger /\ [][NextAdmin]_vars

\* C3 (Non-negativity): in every reachable state every batch quantity and every
\* stockLevel is >= 0, in the database and in the client's store.
C3_NonNegative ==
  /\ \A i \in 1..Len(dbProducts) : dbProducts[i].stockLevel >= 0
  /\ \A b \in dbBatches : b.quantity >= 0
  /\ \A i \in 1..Len(allProducts) :
       /\ allProducts[i].stockLevel >= 0
       /\ \A j \in 1..Len(allProducts[i].batches) : allProducts[i].batches[j].quantity >= 0

\* The same server operations interleaved: one handler serves a receive while the
\* other serves an update or a delete; each keeps its response.
NextAdminRace ==
  \/ \E bn \in {"L1", "L2"}, q \in 0..MaxQty : PostArrive("h1", "p1", PostData(bn, q))
  \/ \E id \in Targets, bid \in 1..MaxBatchId, q \in 0..MaxQty,
        given \in {{"quantity"}, {"costPrice"}, {}} :
       PatchArrive("h2", id, bid, PostData("", q), given)
  \/ \E id \in Targets, bid \in 1..MaxBatchId : DeleteArrive("h2", id, bid)
  \/ \E h \in Handlers : FindProduct(h)
  \/ \E h \in Handlers : PostFindBatch(h)
  \/ \E h \in Handlers : PostWriteBatch(h)
  \/ \E h \in Handlers : PostWriteProduct(h)
  \/ \E h \in Handlers : FindBatchById(h)
  \/ \E h \in Handlers : PatchWriteBatch(h)
  \/ \E h \in Handlers : PatchWriteProduct(h)
  \/ \E h \in Handlers : DeleteWriteProduct(h)
  \/ \E h \in Handlers : DeleteBatch(h)

SpecAdminRace == InitLedger /\ [][NextAdminRace]_vars

\* ------------------------------------------------------------ scanning
\* What the scanner delivers: the code and the record the barcode parser (an
\* external collaborator) returns for it; a GS1 payload carrying gtin, batch and
\* expiry, plain codes returned as rawData, and a code the parser returns nothing for.
PlainResult(rawData) ==
  [gtin |-> "", rawData |-> rawData, batchNumber |-> "", expiryDate |-> NoDate]

ScanInputs ==
  {<<"(01)g1(10)L2", [gtin |-> "g1", rawData |-> "(01)g1(10)L2", batchNumber |-> "L2",
                      expiryDate |-> 150]>>,
   <<"g1", PlainResult("g1")>>,
   <<"s2", PlainResult("s2")>>,
   <<"x1", PlainResult("")>>}

\* A row entered by hand before the scans, for an identity that is not scanned.
StartRow ==
  [createEmptyRow("r0", "g9") EXCEPT !.productName = "N9", !.quantity = 2]

InitScan ==
  /\ InitCore
  /\ gridData \in {<<>>, <<StartRow>>}
  /\ rowSeq = 0

\* Scans only (and the catalog reloading underneath): no edit, deletion or commit.
NextScan ==
  \/ \E in \in ScanInputs : handleScan(in[1], in[2])
  \/ \E n \in 1..(MaxRows + 1) : unhighlight(RowId(n))
  \/ fetchProducts
  \/ FetchResolve
  \/ FetchFail
  \/ CallReturn

SpecScan == InitScan /\ [][NextScan]_vars

RowsFor(x) == {i \in 1..Len(gridData) : gridData[i].gtin = x}

\* C7 (Scan coalescing): from a grid with no row for identity X, N >= 1 scans of X
\* with no edit, deletion or commit in between leave exactly one row whose gtin is
\* X, of quantity N, and create no other row.
C7_ScanCoalescing ==
  /\ \A x \in ScanIds :
       scans[x] >= 1 =>
         /\ Cardinality(RowsFor(x)) = 1
         /\ \A i \in RowsFor(x) : gridData[i].quantity = scans[x]
  /\ \A i \in 1..Len(gridData) :
       \/ gridData[i].gtin \in ScanIds /\ scans[gridData[i].gtin] >= 1
       \/ gridData[i] = StartRow /\ i = Len(gridData)

\* Identity g1 was scanned three times (as GS1 payload and as plain code) and an
\* unknown code twice, next to a row entered before.
C7_Witness ==
  /\ scans["g1"] = 3
  /\ scans["x1"] = 2
  /\ Len(gridData) = 3
  /\ \E i \in 1..Len(gridData) : gridData[i].gtin = "g1" /\ gridData[i].quantity = 3
  /\ gridData[3] = StartRow

\* -------------------------------------------------------------- commit
\* The clerk fills the grid by scanning and typing while nothing is in flight,
\* then saves; the commit's calls run against the server one after another.
NextSave ==
  \/ Quiet /\ rowSeq < MaxSaveRows /\ \E in \in ScanInputs : handleScan(in[1], in[2])
  \/ Quiet /\ \E n \in 1..MaxSaveRows : updateRow(RowId(n), "productName", "NX")
  \/ Quiet /\ \E n \in 1..MaxSaveRows : updateRow(RowId(n), "costPrice", 1)
  \/ handleSaveAll
  \/ SaveContinue
  \/ SaveFinish
  \/ SaveCatch
  \/ CreateBatchSend
  \/ CreateBatchFail
  \/ CreateBatchRespond
  \/ CreateProductSend
  \/ CreateProductFail
  \/ CreateProductRespond
  \/ \E h \in Handlers : ServerStep(h)
  \/ \E h \in Handlers : ProductFindGtin(h)
  \/ \E h \in Handlers : ProductCreate(h)
  \/ FetchResolve
  \/ FetchFail

SpecSave == InitLedger /\ [][NextSave]_vars

\* The commit's catch block runs in this step, the call of row save.i having thrown.
SaveFails == save.pc = "running" /\ call.pc = "threw" /\ save'.pc = "idle"

\* The grid after the failure holds row k and the rows after it and none of the
\* rows applied before it, and the ledger keeps what was applied.
RetryGrid ==
  LET k == save.i
      entries == save.entries
  IN /\ \A j \in k..Len(entries) :
          \E i \in 1..Len(gridData') : gridData'[i] = entries[j]
     /\ \A j \in 1..(k - 1) :
          entries[j].productName # "" =>
            ~\E i \in 1..Len(gridData') : gridData'[i].id = entries[j].id
     /\ dbProducts' = dbProducts
     /\ dbBatches' = dbBatches

\* C6 (Partial commit failure): when the call of row k fails, the rows before k
\* stay applied, and the grid afterwards holds exactly the rows not yet applied
\* (row k and those after it), not the applied ones, so a retry cannot apply a
\* row twice.
C6_PartialCommitFailure == [][SaveFails => RetryGrid]_vars

\* ------------------------------------------------------ expiry analytics
\* Days to expiry of the batches in stock when the page opens: expired, and both
\* sides of every tier boundary in every time zone of UtcOffsets.
ExpiryOffsets == {0 - 5, 30, 31, 60, 61, 90, 91, 92}
\* The offsets of the second and third batch.
SecondOffsets == {0 - 5, 60, 61}
ThirdOffsets == {30, 91}
UtcOffsets == {0 - 5, 0, 6}

\* The batch rows of the analysed stock: two of p1, one of p2.
StockRow(id, productId, batchNumber, offset, quantity) ==
  [id |-> id, productId |-> productId, batchNumber |-> batchNumber,
   expiryDate |-> today + offset, quantity |-> quantity, costPrice |-> id]

\* A database whose stock levels are the sums of its batches, fetched by the client.
InitExpiry ==
  /\ today \in StartDays
  /\ utcOffset \in UtcOffsets
  /\ \E o1 \in ExpiryOffsets, o2 \in SecondOffsets, o3 \in ThirdOffsets, q1 \in 0..MaxQty :
       /\ dbBatches = {StockRow(1, "p1", "L1", o1, q1), StockRow(2, "p1", "L2", o2, 1),
                       StockRow(3, "p2", "L1", o3, MaxQty)}
       /\ dbProducts = [i \in 1..Len(SeedProducts) |->
                          [SeedProducts[i] EXCEPT
                             !.stockLevel = IF i = 1 THEN q1 + 1 ELSE MaxQty]]
  /\ nextId = 4
  /\ schemaUnique = FALSE
  /\ req = [h \in Handlers |-> IdleReq]
  /\ allProducts \in Listings
  /\ products = BranchView(allProducts)
  /\ call = IdleCall
  /\ gridData = <<>>
  /\ rowSeq = 0
  /\ isSaving = FALSE
  /\ save = IdleSave
  /\ scans = NoScans
  /\ memo = NoMemo
  /\ activeScan = <<>>
  /\ scannedItems = <<>>
  /\ syncLogs = <<>>
  /\ items = <<>>
  /\ addRun = [key |-> <<>>, n |-> 0, fresh |-> FALSE]
  /\ ReturnClosed

\* The page renders, and batches are written off in between.
NextExpiry ==
  \/ render
  \/ \E id \in {"p1", "p2"}, bn \in {"L1", "L2"}, q \in 1..MaxQty :
       removeBatchStock(id, bn, q)

SpecExpiry == InitExpiry /\ [][NextExpiry]_vars

ItemsWith(status) == {i \in 1..Len(memo.items) : memo.items[i].status = status}

\* C8 (Tier assignment): every item is CRITICAL when daysRemaining <= 30 (negative
\* values included), WARNING when 31..60, WATCH when 61..90 and GOOD above 90.
C8_TierAssignment ==
  \A i \in 1..Len(memo.items) :
    LET d == memo.items[i].daysRemaining
        status == memo.items[i].status
    IN /\ memo.items[i].batch.quantity > 0
       /\ d <= 30 => status = "CRITICAL"
       /\ (31 <= d /\ d <= 60) => status = "WARNING"
       /\ (61 <= d /\ d <= 90) => status = "WATCH"
       /\ d > 90 => status = "GOOD"

\* An expired batch and batches on the boundaries 30 and 60 are classified.
C8_Witness ==
  /\ memo.valid
  /\ Len(memo.items) = 3
  /\ memo.items[1].daysRemaining < 0 /\ memo.items[1].status = "CRITICAL"
  /\ memo.items[2].daysRemaining = 30 /\ memo.items[2].status = "CRITICAL"
  /\ memo.items[3].daysRemaining = 60 /\ memo.items[3].status = "WARNING"

RECURSIVE ValueOf(_)
\* Sum of valueAtRisk over the items at the positions in I.
ValueOf(I) ==
  IF I = {} THEN 0
  ELSE LET i == CHOOSE x \in I : TRUE
       IN memo.items[i].valueAtRisk + ValueOf(I \ {i})

\* C9 (Stats aggregation): ALL counts every item and sums their valueAtRisk
\* (quantity x costPrice); CRITICAL, WARNING and WATCH count and sum exactly the
\* items of that status; GOOD items are in ALL only.
C9_StatsAggregation ==
  /\ \A i \in 1..Len(memo.items) :
       memo.items[i].valueAtRisk
         = memo.items[i].batch.quantity * memo.items[i].batch.costPrice
  /\ memo.stats.ALL = [count |-> Len(memo.items), value |-> ValueOf(1..Len(memo.items))]
  /\ \A status \in {"CRITICAL", "WARNING", "WATCH"} :
       memo.stats[status] = [count |-> Cardinality(ItemsWith(status)),
                             value |-> ValueOf(ItemsWith(status))]
  /\ DOMAIN memo.stats = {"CRITICAL", "WARNING", "WATCH", "ALL"}

\* A GOOD item, a WATCH item and a CRITICAL item have been aggregated.
C9_Witness ==
  /\ memo.valid
  /\ ItemsWith("GOOD") # {}
  /\ memo.stats.ALL.count = 3
  /\ memo.stats.CRITICAL.count = 1
  /\ memo.stats.WATCH.count = 1
  /\ memo.stats.WARNING.count = 0
  /\ memo.stats.ALL.value > memo.stats.CRITICAL.value + memo.stats.WATCH.value

\* The (product, batch) pairs of the products array the memo was computed from.
DepPairs ==
  {<<p, b>> : p \in 1..Len(memo.deps), b \in 1..MaxBatchId} \cap
  {pb \in (1..Len(memo.deps)) \X (1..MaxBatchId) :
     pb[2] <= Len(memo.deps[pb[1]].batches)}

ItemsOfPair(pb) ==
  LET product == memo.deps[pb[1]]
      batch == product.batches[pb[2]]
  IN {i \in 1..Len(memo.items) :
        /\ memo.items[i].id = <<product.id, batch.id>>
        /\ memo.items[i].product = product
        /\ memo.items[i].batch = batch}

\* C10: the items are exactly one per (product, batch) pair whose batch quantity
\* is > 0 and none for a batch at 0 or below, so a batch written off to 0 is gone
\* from the items and the stats after the next computation.
C10_ItemsExactlyStocked ==
  /\ \A pb \in DepPairs :
       Cardinality(ItemsOfPair(pb))
         = IF memo.deps[pb[1]].batches[pb[2]].quantity > 0 THEN 1 ELSE 0
  /\ Len(memo.items)
       = Cardinality({pb \in DepPairs : memo.deps[pb[1]].batches[pb[2]].quantity > 0})

\* A batch the database still holds in stock was written off to 0 in the store and
\* the computation after that has no item for it, while others remain.
C10_Witness ==
  /\ memo.valid
  /\ memo.deps = products
  /\ Len(memo.items) = 2
  /\ \E pb \in DepPairs :
       /\ memo.deps[pb[1]].batches[pb[2]].quantity = 0
       /\ ItemsOfPair(pb) = {}
       /\ \E r \in dbBatches :
            /\ r.id = memo.deps[pb[1]].batches[pb[2]].id
            /\ r.quantity > 0

\* ------------------------------------------------------ write-off requests
\* The quantity the store holds for a batch number of a product; -1 when the
\* product or the batch is not there.
OnHand(all, productId, batchNumber) ==
  LET hits == {i \in 1..Len(all) : all[i].id = productId}
  IN IF hits = {} THEN -1
     ELSE LET p == all[CHOOSE i \in hits : TRUE]
          IN IF BatchIndex(p, batchNumber) >= 1
             THEN p.batches[BatchIndex(p, batchNumber)].quantity
             ELSE -1

\* A removeBatchStock call that asks for more than the batch holds.
OverOnHand(productId, batchNumber, quantity) ==
  /\ OnHand(allProducts, productId, batchNumber) >= 0
  /\ quantity > OnHand(allProducts, productId, batchNumber)

\* C11 (Over-quantity rejection): a removeBatchStock request whose quantity exceeds
\* the batch's on-hand quantity is rejected before it reaches the ledger: the
\* batch's quantity and the product's stockLevel stay as they were.
C11_OverQuantityRejected ==
  [][\A id \in Targets, bn \in BatchNumbers, q \in 1..MaxQty :
       (removeBatchStock(id, bn, q) /\ OverOnHand(id, bn, q))
         => UNCHANGED storeVars]_vars

\* ------------------------------------------------ return to vendor, in use
\* What the operator types into the quantity field, as parseInt(...) || 0 reads it.
ReturnInputs == (0 - 1)..(MaxQty + 1)

\* Two batches of p1 within the critical window and one of p2 outside it, fetched
\* by the client; the expiry page not yet rendered.
InitReturn ==
  /\ today \in StartDays
  /\ utcOffset = 0
  /\ dbBatches = {StockRow(1, "p1", "L1", 20, MaxQty), StockRow(2, "p1", "L2", 10, 1),
                  StockRow(3, "p2", "L1", 91, 1)}
  /\ dbProducts = [i \in 1..Len(SeedProducts) |->
                     [SeedProducts[i] EXCEPT
                        !.stockLevel = IF i = 1 THEN MaxQty + 1 ELSE 1]]
  /\ nextId = 4
  /\ schemaUnique = FALSE
  /\ req = [h \in Handlers |-> IdleReq]
  /\ allProducts \in Listings
  /\ products = BranchView(allProducts)
  /\ call = IdleCall
  /\ gridData = <<>>
  /\ rowSeq = 0
  /\ isSaving = FALSE
  /\ save = IdleSave
  /\ scans = NoScans
  /\ memo = NoMemo
  /\ activeScan = <<>>
  /\ scannedItems = <<>>
  /\ syncLogs = <<>>
  /\ items = <<>>
  /\ addRun = [key |-> <<>>, n |-> 0, fresh |-> FALSE]
  /\ ReturnClosed

\* The operator on the expiry page, the catalog re-read by the store, and another
\* session correcting batch L1 of p1 on the server, once (PATCH by handler h2).
NextReturn ==
  \/ render
  \/ \E i \in 1..MaxBatchId : initiateReturn(i)
  \/ \E value \in ReturnInputs : setReturnQty(value)
  \/ closeModal
  \/ cancelReturn
  \/ confirmReturn
  \/ returnTimeoutFired
  \/ fetchProducts
  \/ FetchResolve
  \/ CallReturn
  \/ \E q \in {0, 1} : PatchArrive("h2", "p1", 1, PostData("", q), {"quantity"})
  \/ FindProduct("h2")
  \/ FindBatchById("h2")
  \/ PatchWriteBatch("h2")
  \/ PatchWriteProduct("h2")

SpecReturn == InitReturn /\ [][NextReturn]_vars

\* The step in which the pending timer of confirmReturn runs its callback.
WriteOffApplied == returnTimeout.pending /\ ~returnTimeout'.pending

\* C12 (Quantity bound): every write-off the Return workflow issues carries a
\* quantity q with 1 <= q <= the quantity the referenced batch holds in the store
\* at the moment the write-off is applied, whatever the catalog did in between.
C12_QuantityBound ==
  [][WriteOffApplied =>
       /\ 1 <= returnTimeout.quantity
       /\ returnTimeout.quantity
            <= OnHand(allProducts, returnTimeout.productId, returnTimeout.batchNumber)]_vars

\* C13 (No cancellation while submitting): while isSubmittingReturn is true the
\* operator can neither close the modal nor leave the submitting state; only the
\* completion of the write-off does either.
C13_NoCancelWhileSubmitting ==
  [][(isSubmittingReturn /\ (~isSubmittingReturn' \/ (ModalShown /\ ~ModalShown')))
       => WriteOffApplied]_vars

\* The timer of confirmReturn fires once its second has passed.
SpecReturnFair == SpecReturn /\ WF_vars(returnTimeoutFired)

\* The workflow at rest after a return.
ReturnDone ==
  /\ ~isReturnModalOpen
  /\ selectedReturnItem = NoItem
  /\ ~isSubmittingReturn

\* Submitting is entered from a shown modal with a positive quantity, and the timer
\* then holds the selected product, batch number and quantity.
EntersSubmitting ==
  (~isSubmittingReturn /\ isSubmittingReturn') =>
    /\ ModalShown
    /\ returnQty > 0
    /\ returnTimeout' = [pending |-> TRUE,
                         productId |-> selectedReturnItem[1].product.id,
                         batchNumber |-> selectedReturnItem[1].batch.batchNumber,
                         quantity |-> returnQty]

\* What the timer holds changes only when it fires, and firing is one
\* removeBatchStock of what it holds followed by the resets.
AppliesConfirmed ==
  (returnTimeout.pending /\ returnTimeout' # returnTimeout) =>
    /\ allProducts' = RemovedFrom(allProducts, returnTimeout.productId,
                                  returnTimeout.batchNumber, returnTimeout.quantity)
    /\ returnTimeout' = NoTimeout
    /\ ReturnDone'

\* A confirmation without an item or with a quantity <= 0 changes nothing.
RejectedConfirmIsNoop ==
  /\ \A qty \in ReturnInputs :
       qty <= 0 => ConfirmEffect(selectedReturnItem, qty, isSubmittingReturn, returnTimeout)
                     = <<isSubmittingReturn, returnTimeout>>
  /\ ConfirmEffect(NoItem, returnQty, isSubmittingReturn, returnTimeout)
       = <<isSubmittingReturn, returnTimeout>>

\* C14 (Workflow completion): confirming with an item selected and returnQty > 0
\* enters Submitting; from Submitting the workflow eventually is closed (modal
\* closed, selection cleared, flag false) after exactly one write-off of the
\* confirmed quantity to the selected product and batch number; a confirmation
\* with returnQty <= 0 or with no item changes nothing.
C14_WorkflowCompletion ==
  /\ [][EntersSubmitting /\ AppliesConfirmed]_vars
  /\ [](isSubmittingReturn <=> returnTimeout.pending)
  /\ []RejectedConfirmIsNoop
  /\ (isSubmittingReturn ~> ReturnDone)

\* A return has completed: the selection is cleared and the quantity is the
\* confirmed one.
C14_Witness == ReturnDone /\ returnQty > 0 /\ ~returnTimeout.pending

\* The step in which a re-read of the catalog replaces the store's lists.
ReRead == call.pc = "fetch" /\ call'.pc = "returned"

StockLevelOf(all, productId) ==
  LET hits == {i \in 1..Len(all) : all[i].id = productId}
  IN IF hits = {} THEN -1 ELSE all[CHOOSE i \in hits : TRUE].stockLevel

\* C15 (Durability of a return): a re-read of the catalog after a completed return
\* does not undo the write-off: with no other change on the server, no batch and
\* no product shows a higher quantity after the re-read than before it.
C15_ReturnDurable ==
  [][(ReRead /\ req["h2"] = IdleReq) =>
       /\ \A bn \in BatchNumbers :
            OnHand(allProducts', "p1", bn) <= OnHand(allProducts, "p1", bn)
       /\ StockLevelOf(allProducts', "p1") <= StockLevelOf(allProducts, "p1")]_vars

\* ------------------------------------------------- commit: what it leaves
\* The products created through POST /products, in creation order.
CreatedProducts == SubSeq(dbProducts, Len(SeedProducts) + 1, Len(dbProducts))

\* C16 (Commit of an unknown product): a commit that has gone through leaves every
\* product it created with an initial batch, and with a stockLevel equal to the
\* sum of its batches' quantities.
C16_NewProductHasBatch ==
  (Quiet /\ gridData = <<>>) =>
    \A i \in 1..Len(CreatedProducts) :
      /\ DbBatchesOf(CreatedProducts[i].id) # {}
      /\ DbConserved(CreatedProducts[i].id)

\* The step in which the commit's loop calls incrementStock or addProduct.
IssuesCall ==
  /\ call' # call
  /\ call'.caller = "saveAll"
  /\ call'.pc \in {"createBatch", "createProduct"}

\* The step in which the loop is through and calls the final fetchProducts.
IssuesRefresh ==
  /\ call' # call
  /\ call'.caller = "saveAll"
  /\ call'.fn = "fetchProducts"

\* The receive the claim expects for a row that matches product p.
ExpectedReceive(row, p) ==
  [fn |-> "incrementStock", pc |-> "createBatch", caller |-> "saveAll", productId |-> p.id,
   data |-> [batchNumber |-> IF row.batchNumber = "" THEN "DEFAULT" ELSE row.batchNumber,
             expiryDate |-> IF row.expiryDate = NoDate THEN today + YearDays
                            ELSE row.expiryDate,
             quantity |-> row.quantity,
             costPrice |-> row.costPrice]]

Matches(row, p) == p.gtin = row.gtin \/ p.nameEn = row.productName

\* The loop's dispatch, judged against a catalog: calls are for named rows, each
\* row is called for once and no named row is passed over, and a row that matches
\* a product of the catalog gets the receive on a matching product.
DispatchAgainst(catalog) ==
  /\ IssuesCall =>
       LET row == save'.entries[save'.i]
           hits == {j \in 1..Len(catalog) : Matches(row, catalog[j])}
       IN /\ row.productName # ""
          /\ save'.i > save.i
          /\ \A j \in (save.i + 1)..(save'.i - 1) : save'.entries[j].productName = ""
          /\ hits # {} => \E j \in hits : call' = ExpectedReceive(row, catalog[j])
  /\ IssuesRefresh =>
       \A j \in (save.i + 1)..Len(save'.entries) : save'.entries[j].productName = ""

\* The same, against the catalog the handler's closure holds.
DispatchOnSnapshot == [][DispatchAgainst(save'.catalog)]_vars

\* C17 (Commit dispatch): during saveAll a row with an empty product name causes
\* no call, and each named row whose identity matches a product of the catalog
\* causes exactly one receive on that product with the row's quantity, batch
\* number ("DEFAULT" if empty), expiry date and cost.
C17_CommitDispatch == [][DispatchAgainst(allProducts)]_vars

\* The request this client has on the server, if any, is the one of the call the
\* store is waiting for.
OneOutstanding ==
  req[ClientHandler].pc # "idle" =>
    /\ call.pc \in {"awaitBatch", "awaitProduct"}
    /\ req[ClientHandler].data = call.data

\* The loop calls for a row after the first only when the call before it has
\* completed: its response consumed and, for a receive, the catalog re-read.
IssuedAfterCompletion ==
  (IssuesCall /\ save.pc = "running") =>
    /\ call.pc = "returned"
    /\ req[ClientHandler].pc = "idle"
    /\ save'.i >= save.i
    /\ save'.entries = save.entries

\* C18 (Commit ordering): within one saveAll the calls are issued one at a time in
\* grid order; the call for a later row is issued only after the call before it
\* has completed, and at most one call of the commit is outstanding.
C18_CommitOrdering ==
  /\ [][IssuedAfterCompletion]_vars
  /\ [][IssuesCall => save'.i > save.i \/ call.fn = "addProduct"]_vars
  /\ [](save.pc = "running" => OneOutstanding)

\* The commit has issued the call of its second row, the first row having been a
\* named row too.
C18_Witness ==
  /\ save.pc = "running"
  /\ save.i = 2
  /\ save.entries[1].productName # ""
  /\ call.pc \in {"createBatch", "createProduct"}

\* The step in which handleSaveAll ends without having caught anything.
SaveSucceeds == save.pc = "running" /\ save'.pc = "idle" /\ call.pc # "threw"

\* C19 (Commit completion): when every call of the commit has succeeded the grid
\* is empty afterwards and the catalog in memory is what the server holds after
\* the last row was applied; when a row's call has failed the grid is not cleared.
C19_CommitCompletion ==
  /\ [][SaveSucceeds =>
          /\ gridData' = <<>>
          /\ allProducts' \in Listings
          /\ products' = BranchView(allProducts')]_vars
  /\ [][SaveFails => gridData' = gridData]_vars

\* The grid is cleared by a successful commit; the catalog's content aside.
GridClearedOnSuccess == [][SaveSucceeds => gridData' = <<>>]_vars

\* ------------------------------------------------------- duplicate scans
\* The identity whose scan this step delivers, if it delivers one.
ScanOf(x) == scans'[x] = scans[x] + 1

\* The first row of the grid that carries identity x (0 when none).
RowOf(x) == FindIndex(gridData, LAMBDA row : row.gtin = x)

\* C20 (Duplicate scan): a scan whose identity is the gtin of a row of the grid
\* adds exactly 1 to that row's quantity; the row keeps its place and its other
\* fields, the number of rows is unchanged and every other row is unchanged.
C20_DuplicateScan ==
  [][\A x \in ScanIds :
       (ScanOf(x) /\ RowOf(x) >= 1) =>
         LET k == RowOf(x)
         IN /\ Len(gridData') = Len(gridData)
            /\ gridData'[k].quantity = gridData[k].quantity + 1
            /\ [gridData'[k] EXCEPT !.quantity = 0, !.isHighlighted = FALSE]
                 = [gridData[k] EXCEPT !.quantity = 0, !.isHighlighted = FALSE]
            /\ \A j \in 1..Len(gridData) : j # k => gridData'[j] = gridData[j]]_vars

\* A duplicate scan has just hit a row that is not the top row.
C20_Witness ==
  \E k \in 2..Len(gridData) :
    /\ gridData[k].isHighlighted
    /\ gridData[k].quantity >= 2
    /\ scans[gridData[k].gtin] = gridData[k].quantity

\* C21 (New-identity scan): a scan whose identity is the gtin of no row of the
\* grid inserts exactly one row with that identity and quantity 1 at the front,
\* and the rows that were there keep their contents and their order below it.
C21_NewIdentityScan ==
  [][\A x \in ScanIds :
       (ScanOf(x) /\ RowOf(x) = 0) =>
         /\ Len(gridData') = Len(gridData) + 1
         /\ gridData'[1].gtin = x
         /\ gridData'[1].quantity = 1
         /\ \A j \in 1..Len(gridData) : gridData'[j + 1] = gridData[j]]_vars

\* A first scan has put its row above a row that had been scanned twice.
C21_Witness ==
  /\ Len(gridData) >= 2
  /\ gridData[1].gtin \in ScanIds
  /\ scans[gridData[1].gtin] = 1
  /\ gridData[1].quantity = 1
  /\ gridData[2].quantity = 2

\* --------------------------------------------------- missing product or batch
\* A caller invokes removeBatchStock and goes on: the function is declared void,
\* its updater has no throw, so the call returns normally whatever it found.
removeBatchStockCall(productId, batchNumber, quantity) ==
  /\ call.pc = "idle"
  /\ allProducts' = RemovedFrom(allProducts, productId, batchNumber, quantity)
  /\ products' = BranchView(allProducts')
  /\ call' = [IdleCall EXCEPT !.fn = "removeBatchStock", !.pc = "returned",
                              !.caller = "direct", !.productId = productId]
  /\ UNCHANGED <<dbVars, req, clock, uiVars>>

\* Receives and write-offs, one at a time, against products and batch numbers
\* that exist and that do not.
NextNotFound ==
  \/ Quiet /\ \E id \in Targets, bn \in ReceiveNumbers, q \in 1..MaxQty :
                incrementStock(id, bn, q, NoDate, 1)
  \/ CreateBatchSend
  \/ CreateBatchFail
  \/ CreateBatchRespond
  \/ FetchResolve
  \/ CallReturn
  \/ ServerStep(ClientHandler)
  \/ Quiet /\ \E id \in Targets, bn \in BatchNumbers, q \in 1..MaxQty :
                removeBatchStockCall(id, bn, q)

SpecNotFound == InitLedger /\ [][NextNotFound]_vars

\* A receive in flight for a product the server does not have.
ReceiveOfMissing == call.fn = "incrementStock" /\ ~DbHasProduct(call.productId)

\* The step of a write-off that names a product or a batch the store does not have.
WriteOffOfMissing ==
  /\ call'.fn = "removeBatchStock"
  /\ call.fn # "removeBatchStock"
  /\ \E bn \in BatchNumbers, q \in 1..MaxQty :
       /\ OnHand(allProducts, call'.productId, bn) = 0 - 1
       /\ allProducts' = RemovedFrom(allProducts, call'.productId, bn, q)

\* The receive half: nothing changes while such a receive runs, and it ends thrown.
ReceiveNotFound ==
  ReceiveOfMissing =>
    /\ UNCHANGED <<dbProducts, dbBatches, storeVars>>
    /\ call'.pc \in {"createBatch", "awaitBatch", "threw", "idle"}
    /\ (call'.pc = "idle" => call.pc = "threw")

\* C22 (NotFound leaves state unchanged): a receive or a write-off that names a
\* product that does not exist (for a write-off, also a batch number the product
\* does not have) fails, the failure reaches the caller, and no stockLevel and no
\* batch changes.
C22_NotFoundUnchanged ==
  /\ [][ReceiveNotFound]_vars
  /\ [][WriteOffOfMissing => (UNCHANGED storeVars /\ call'.pc = "threw")]_vars

\* The state half alone: a write-off of a missing product or batch changes nothing.
WriteOffOfMissingIsNoop == [][WriteOffOfMissing => UNCHANGED storeVars]_vars

\* The receive half alone.
ReceiveOfMissingFails == [][ReceiveNotFound]_vars

\* ------------------------------------------------------- receive: inputs
\* A receive in flight whose quantity is not positive.
ReceiveOfNonPositive == call.fn = "incrementStock" /\ call.data.quantity <= 0

\* C23 (Receive requires a positive quantity): a receive whose quantity is <= 0
\* is rejected before any call to the ledger: it creates no batch, changes no
\* batch quantity and no stockLevel, and it does not complete as a success.
C23_PositiveQuantity ==
  [][ReceiveOfNonPositive =>
       /\ UNCHANGED <<dbProducts, dbBatches, req>>
       /\ call'.pc \in {"createBatch", "threw", "idle"}
       /\ (call'.pc = "idle" => call.pc = "threw")]_vars

\* The ledger half alone: such a receive writes nothing to the database.
NonPositiveWritesNothing ==
  [][ReceiveOfNonPositive => UNCHANGED <<dbProducts, dbBatches>>]_vars

\* ----------------------------------------------------- receive: post-state
\* The POST request of the client's receive, for a positive quantity.
ReceiveRequest ==
  /\ req[ClientHandler].kind = "POST"
  /\ req[ClientHandler].data.quantity > 0

IsBatchOf(r, productId, batchNumber) ==
  r.productId = productId /\ r.batchNumber = batchNumber

\* The request's write to the batch table: one batch numbered b afterwards, new
\* with the given expiry, cost and quantity, or the old one grown by q; every
\* other batch as it was.
ReceiveWritesBatch ==
  (ReceiveRequest /\ dbBatches' # dbBatches) =>
    LET r == req[ClientHandler]
        old == {b \in dbBatches : IsBatchOf(b, r.productId, r.data.batchNumber)}
        new == {b \in dbBatches' : IsBatchOf(b, r.productId, r.data.batchNumber)}
    IN /\ {b \in dbBatches' : ~IsBatchOf(b, r.productId, r.data.batchNumber)}
            = {b \in dbBatches : ~IsBatchOf(b, r.productId, r.data.batchNumber)}
       /\ Cardinality(new) = 1
       /\ IF old = {}
          THEN \E b \in new : /\ b.quantity = r.data.quantity
                              /\ b.expiryDate = r.data.expiryDate
                              /\ b.costPrice = r.data.costPrice
          ELSE \E o \in old, b \in new : /\ b.id = o.id
                                         /\ b.quantity = o.quantity + r.data.quantity
                                         /\ b.expiryDate = o.expiryDate

\* The request's write to the product table: that product's stockLevel grows by
\* q, every other product is as it was.
ReceiveWritesProduct ==
  (ReceiveRequest /\ dbProducts' # dbProducts) =>
    LET r == req[ClientHandler]
    IN dbProducts' = [i \in 1..Len(dbProducts) |->
                        IF dbProducts[i].id = r.productId
                        THEN [dbProducts[i] EXCEPT !.stockLevel = @ + r.data.quantity]
                        ELSE dbProducts[i]]

\* A receive that has succeeded has made both writes.
ReceiveDone ==
  (ReceiveRequest /\ req[ClientHandler].pc = "done"
     /\ req[ClientHandler].status \in {200, 201}) =>
    LET r == req[ClientHandler]
    IN /\ DbProduct(r.productId).stockLevel = r.stockLevel + r.data.quantity
       /\ \E b \in DbBatchesOf(r.productId) :
            /\ b.batchNumber = r.data.batchNumber
            /\ b.quantity = (IF r.existingId # 0 THEN r.existingQty ELSE 0) + r.data.quantity

\* C24 (Receive post-state): a successful receive of q > 0 under batch number b
\* leaves the product with exactly one batch numbered b, created with the given
\* expiry, cost and quantity q if there was none and grown by exactly q
\* otherwise; all other batches and products are unchanged and the product's
\* stockLevel has grown by exactly q.
C24_ReceivePostState ==
  /\ [][ReceiveWritesBatch /\ ReceiveWritesProduct]_vars
  /\ []ReceiveDone

\* A receive onto an existing batch and a receive creating a batch have both
\* gone through.
C24_Witness ==
  /\ Quiet
  /\ \E b \in DbBatchesOf("p1") : b.batchNumber = "L1" /\ b.quantity > 1
  /\ \E b \in DbBatchesOf("p1") : b.batchNumber = "DEFAULT" /\ b.quantity > 0

\* ------------------------------------------------------ write-off: effects
\* C25 (Over-subtraction clamps silently): a write-off of more units than the
\* batch holds does not fail: the batch's quantity becomes exactly 0, the
\* stockLevel drops by the requested amount, floored at 0, and the call returns
\* without an error.
C25_ClampsSilently ==
  [][\A id \in Targets, bn \in BatchNumbers, q \in 1..MaxQty :
       (removeBatchStockCall(id, bn, q) /\ OverOnHand(id, bn, q)) =>
         /\ OnHand(allProducts', id, bn) = 0
         /\ StockLevelOf(allProducts', id)
              = (IF StockLevelOf(allProducts, id) > q
                 THEN StockLevelOf(allProducts, id) - q ELSE 0)
         /\ call'.pc = "returned"]_vars

\* A write-off has taken more than its batch held: the level is 0 although
\* another batch still holds stock.
C25_Witness ==
  /\ call.fn = "removeBatchStock"
  /\ \E i \in 1..Len(allProducts) :
       /\ allProducts[i].id = call.productId
       /\ allProducts[i].stockLevel = 0
       /\ SumQty(allProducts[i].batches) > 0

\* A batch as it is known apart from its quantity (and, in the store, its cost).
BatchIdentity(b) ==
  [batchNumber |-> b.batchNumber, expiryDate |-> b.expiryDate, costPrice |-> b.costPrice]

\* A step of the store's own ledger operations (local receive, write-off): the
\* lists change while no call of the store moves.
LocalLedgerStep == storeVars' # storeVars /\ call' = call

\* Such a step keeps every product, and every batch of it in its place with its
\* number, expiry and cost.
StoreRetainsBatches ==
  LocalLedgerStep =>
    /\ Len(allProducts') = Len(allProducts)
    /\ \A i \in 1..Len(allProducts) :
         /\ allProducts'[i].id = allProducts[i].id
         /\ Len(allProducts'[i].batches) >= Len(allProducts[i].batches)
         /\ \A j \in 1..Len(allProducts[i].batches) :
              BatchIdentity(allProducts'[i].batches[j])
                = BatchIdentity(allProducts[i].batches[j])

\* No step deletes a batch row of the database or changes its product, number
\* or expiry.
DbRetainsBatches ==
  \A b \in dbBatches :
    \E c \in dbBatches' : /\ c.id = b.id
                          /\ c.productId = b.productId
                          /\ c.batchNumber = b.batchNumber
                          /\ c.expiryDate = b.expiryDate

ReceiveAnswered ==
  /\ call.fn = "incrementStock"
  /\ call.pc = "awaitBatch"
  /\ call'.pc # "awaitBatch"
  /\ call.data.quantity > 0
  /\ call.data.costPrice <= 0
  /\ \E b \in DbBatchesOf(call.productId) : b.batchNumber = call.data.batchNumber

\* The request's update of an existing batch row.
UpdatesExisting ==
  /\ ReceiveRequest
  /\ req[ClientHandler].existingId # 0
  /\ dbBatches' # dbBatches

\* A positive cost is written onto the batch.
PositiveCostOverwrites ==
  (UpdatesExisting /\ req[ClientHandler].data.costPrice > 0) =>
    \E b \in dbBatches' : /\ b.id = req[ClientHandler].existingId
                          /\ b.costPrice = req[ClientHandler].data.costPrice

\* A cost that is not positive leaves the batch's cost as it was.
OtherCostKeeps ==
  (UpdatesExisting /\ req[ClientHandler].data.costPrice <= 0) =>
    \E b \in dbBatches, c \in dbBatches' : /\ b.id = req[ClientHandler].existingId
                                           /\ c.id = b.id
                                           /\ c.costPrice = b.costPrice

\* C27 (Cost overwrite rule): on a receive into an existing batch a positive
\* costPrice becomes the batch's costPrice; with a costPrice that is absent or
\* not positive the receive still succeeds, the quantity is added and the
\* batch's costPrice stays as it was.
C27_CostOverwrite ==
  /\ [][PositiveCostOverwrites /\ OtherCostKeeps]_vars
  /\ [][ReceiveAnswered => call'.pc = "fetch"]_vars

\* The positive half alone.
PositiveCostIsWritten == [][PositiveCostOverwrites]_vars


\* ------------------------------------------------ receive: default number
\* The quantity a receive of q adds to what the batch of that number held, a
\* missing batch counting as 0.
AfterReceive(onHand, q) == Max(onHand, 0) + q

\* A receive with an empty batch number applied to the store's own lists.
LocalDefaultApplied(id, q) ==
  /\ OnHand(allProducts', id, "DEFAULT") = AfterReceive(OnHand(allProducts, id, "DEFAULT"), q)
  /\ \A bn \in BatchNumbers \ {"DEFAULT"} :
       OnHand(allProducts', id, bn) = OnHand(allProducts, id, bn)

\* The same receive sent to the server: the request names batch "DEFAULT".
SentAsDefault == call'.data.batchNumber = "DEFAULT"

\* C28 (Default batch number): a receive whose batchNumber is empty goes to the
\* product's batch numbered "DEFAULT", which is created if the product has none
\* of that number and incremented otherwise; no other batch's quantity changes.
C28_DefaultBatch ==
  /\ [][\A q \in 0..MaxQty, c \in {0, 1} :
          incrementStock("p1", "", q, NoDate, c) => SentAsDefault]_vars
  /\ [][\A q \in 1..MaxQty :
          incrementStockLocal("p1", "", q, NoDate, 1) => LocalDefaultApplied("p1", q)]_vars

\* The server-backed half alone.
DefaultSentToServer ==
  [][\A q \in 0..MaxQty, c \in {0, 1} :
       incrementStock("p1", "", q, NoDate, c) => SentAsDefault]_vars


\* ------------------------------------------------------- expiry: ordering
\* The urgency order of the tiers: CRITICAL > WARNING > WATCH > GOOD.
Rank(status) ==
  CASE status = "CRITICAL" -> 3
    [] status = "WARNING" -> 2
    [] status = "WATCH" -> 1
    [] status = "GOOD" -> 0

\* C29 (Tier monotonicity): of any two classified items, the one with no more
\* days remaining has a tier at least as urgent, under the order CRITICAL >
\* WARNING > WATCH > GOOD.
C29_TierMonotone ==
  \A i, j \in 1..Len(memo.items) :
    memo.items[i].daysRemaining <= memo.items[j].daysRemaining =>
      Rank(memo.items[i].status) >= Rank(memo.items[j].status)

\* Three items on the page, in three different tiers, an expired one among them.
C29_Witness ==
  /\ memo.valid
  /\ Len(memo.items) = 3
  /\ memo.items[1].daysRemaining < 0
  /\ Rank(memo.items[1].status) > Rank(memo.items[2].status)
  /\ Rank(memo.items[2].status) > Rank(memo.items[3].status)

\* C30 (Sorted items): the classifier's item list is ascending by daysRemaining:
\* of two adjacent items the earlier has no more days remaining than the later,
\* so the expired ones come first.
C30_ItemsAscending ==
  \A i \in 1..(Len(memo.items) - 1) :
    memo.items[i].daysRemaining <= memo.items[i + 1].daysRemaining

\* The sort moved an expired item from the end of the pushed order to the front.
C30_Witness ==
  /\ memo.valid
  /\ Len(memo.items) = 3
  /\ memo.items[1].daysRemaining < 0
  /\ memo.items[2].daysRemaining > 0
  /\ memo.items # PushedItems(memo.deps)
  /\ PushedItems(memo.deps)[1].daysRemaining > memo.items[1].daysRemaining


\* --------------------------------------------------------- expiry: purity
\* The cached value was computed from the products array the page holds now.
MemoIsCurrent == memo.valid /\ memo.deps = products

\* A second evaluation on the same products and day gives what the first gave.
SameOnReevaluation ==
  MemoIsCurrent =>
    /\ useExpiryStats(products).items = memo.items
    /\ useExpiryStats(products).stats = memo.stats

\* An evaluation leaves the products and batches it was given as they were.
EvaluationKeepsInput ==
  memo' # memo => /\ UNCHANGED <<storeVars, dbVars, clock, posVars>>
                  /\ memo'.deps = products

LookupProduct ==
  [id |-> "p3", gtin |-> "g3", sku |-> "g1", nameEn |-> "N3", branchId |-> "b1",
   stockLevel |-> 0, price |-> 2]

\* The catalog with that product created before the others, or after them.
LookupCatalogs == {<<LookupProduct>> \o SeedProducts, SeedProducts \o <<LookupProduct>>}

InitLookup ==
  /\ today \in StartDays
  /\ dbProducts \in LookupCatalogs
  /\ dbBatches = {[id |-> 1, productId |-> "p1", batchNumber |-> "L1",
                   expiryDate |-> today + 20, quantity |-> 1, costPrice |-> 1]}
  /\ nextId = 2
  /\ schemaUnique = FALSE
  /\ req = [h \in Handlers |-> IdleReq]
  /\ allProducts \in Listings
  /\ products = BranchView(allProducts)
  /\ call = IdleCall
  /\ isSaving = FALSE
  /\ save = IdleSave
  /\ scans = NoScans
  /\ memo = NoMemo
  /\ activeScan = <<>>
  /\ scannedItems = <<>>
  /\ syncLogs = <<>>
  /\ items = <<>>
  /\ addRun = [key |-> <<>>, n |-> 0, fresh |-> FALSE]
  /\ ReturnClosed
  /\ utcOffset = 0
  /\ gridData \in {<<>>, <<StartRow>>}
  /\ rowSeq = 0

\* Scans against a catalog in which one code is a gtin and another product's sku.
SpecLookup == InitLookup /\ [][NextScan]_vars

\* The catalog product the code stands for: by gtin, then id, then sku (0: none).
PreferredIndex(all, c) ==
  IF FindIndex(all, LAMBDA p : p.gtin = c) >= 1 THEN FindIndex(all, LAMBDA p : p.gtin = c)
  ELSE IF FindIndex(all, LAMBDA p : p.id = c) >= 1 THEN FindIndex(all, LAMBDA p : p.id = c)
  ELSE FindIndex(all, LAMBDA p : p.sku = c)

\* The new row's fields that come from the catalog product.
PrefilledFrom(row, p) ==
  /\ row.productName = p.nameEn
  /\ row.sellingPrice = p.price
  /\ row.costPrice = IF p.batches # <<>> THEN p.batches[1].costPrice ELSE 0

\* C32 (Catalog lookup preference): when the scanned identity is the gtin of one
\* catalog product and the id or sku of another, the new row is pre-filled from
\* the product matched by gtin, whatever the products' order in the catalog.
C32_LookupPreference ==
  [][\A x \in ScanIds :
       (ScanOf(x) /\ RowOf(x) = 0 /\ PreferredIndex(allProducts, x) >= 1) =>
         PrefilledFrom(gridData'[1], allProducts[PreferredIndex(allProducts, x)])]_vars

\* The same with the product the code's first match in catalog order names.
FirstMatchPrefills ==
  [][\A x \in ScanIds :
       (ScanOf(x) /\ RowOf(x) = 0 /\ MasterIndex(allProducts, x) >= 1) =>
         PrefilledFrom(gridData'[1], allProducts[MasterIndex(allProducts, x)])]_vars


\* ------------------------------------------------- grid before the commit
MaxGridRows == 2

\* The cells the clerk types into, and what is typed.
EditedCells == {<<"productName", "NX">>, <<"quantity", 0>>}

\* The scans of this page visit: a known plain code and an unknown one.
GridScans == {in \in ScanInputs : in[1] \in {"g1", "x1"}}

\* Scans, edits, insertions, deletions and Clear; no commit.
NextGrid ==
  \/ rowSeq < MaxGridRows /\ \E in \in GridScans : handleScan(in[1], in[2])
  \/ \E n \in 1..MaxGridRows : unhighlight(RowId(n))
  \/ \E n \in 0..MaxGridRows, c \in EditedCells : updateRow(RowId(n), c[1], c[2])
  \/ \E n \in 0..MaxGridRows : deleteRow(RowId(n))
  \/ rowSeq < MaxGridRows /\ addRow
  \/ clearGrid

SpecGrid == InitScan /\ [][NextGrid]_vars

\* A step that changes the grid.
GridStep == gridData' # gridData

\* An edit of row id: one cell of that row changed, nothing else in the grid.
EditOf(id) ==
  /\ Len(gridData') = Len(gridData)
  /\ \E i \in 1..Len(gridData) :
       /\ gridData[i].id = id
       /\ gridData'[i] # gridData[i]
       /\ gridData'[i].id = id

\* Every row but row id is where and what it was.
OthersKept(id) ==
  \A i \in 1..Len(gridData) : gridData[i].id # id => gridData'[i] = gridData[i]

\* A deletion of row id: that row is gone, the others follow in their order.
DeletionOf(id) ==
  /\ Len(gridData') = Len(gridData) - 1
  /\ \E i \in 1..Len(gridData) : gridData[i].id = id
  /\ ~\E i \in 1..Len(gridData') : gridData'[i].id = id

OthersFollow(id) == gridData' = SelectSeq(gridData, LAMBDA row : row.id # id)

\* C33 (Grid operations before commit): scans, field edits, row insertions, row
\* deletions and Clear change only the grid: the catalog's products, batches and
\* stock levels, in the store and in the database, stay as they are; and an edit
\* or a deletion of one row leaves every other row unchanged.
C33_GridOnly ==
  /\ [][GridStep => UNCHANGED <<storeVars, dbVars, req, call>>]_vars
  /\ [][\A n \in 0..MaxGridRows : EditOf(RowId(n)) => OthersKept(RowId(n))]_vars
  /\ [][\A n \in 0..MaxGridRows : DeletionOf(RowId(n)) => OthersFollow(RowId(n))]_vars

\* After scans, an edit of one row and the deletion of another: the edited row
\* stands next to the hand-entered one, which is as it was.
C33_Witness ==
  /\ rowSeq = MaxGridRows
  /\ Len(gridData) = 2
  /\ gridData[1].productName = "NX"
  /\ gridData[1].quantity = 0
  /\ gridData[2] = StartRow


\* ------------------------------------------------ scans during a commit
\* The scan listener stays attached while handleSaveAll awaits: scans arrive
\* before and during the commit; there are no edits, so rows of unknown codes
\* stay unnamed and are skipped by the loop.
NextSaveScan ==
  \/ rowSeq < MaxSaveRows /\ \E in \in ScanInputs : handleScan(in[1], in[2])
  \/ handleSaveAll
  \/ SaveContinue
  \/ SaveFinish
  \/ SaveCatch
  \/ CreateBatchSend
  \/ CreateBatchFail
  \/ CreateBatchRespond
  \/ ServerStep(ClientHandler)
  \/ FetchResolve
  \/ FetchFail

SpecSaveScan == InitLedger /\ [][NextSaveScan]_vars

\* The quantity the rows of identity x hold in a grid.
GridQty(grid, x) ==
  LET k == FindIndex(grid, LAMBDA row : row.gtin = x)
  IN IF k >= 1 THEN grid[k].quantity ELSE 0

\* The units of x scanned since the running commit took its copy of the grid.
ScannedDuringSave(x) == GridQty(gridData, x) - GridQty(save.entries, x)

\* The server holds every unit of x the grid shows, on top of what the catalog
\* showed when the commit began.
AppliedAll(x) ==
  LET m == MasterIndex(save.catalog, x)
  IN /\ m >= 1
     /\ DbHasProduct(save.catalog[m].id)
     /\ DbProduct(save.catalog[m].id).stockLevel - save.catalog[m].stockLevel
          >= GridQty(gridData, x)

\* C34 (Scans during a commit): a unit scanned while saveAll is in progress is,
\* after saveAll has succeeded, either applied to the catalog or still in the grid.
C34_ScansNotLost ==
  [][\A x \in ScanIds :
       (SaveSucceeds /\ ScannedDuringSave(x) > 0) =>
         \/ AppliedAll(x)
         \/ GridQty(gridData', x) >= ScannedDuringSave(x)]_vars

\* A commit that fails keeps the units scanned during it in the grid.
ScansKeptOnFailure ==
  [][\A x \in ScanIds :
       (SaveFails /\ ScannedDuringSave(x) > 0) =>
         GridQty(gridData', x) >= ScannedDuringSave(x)]_vars


\* ----------------------------------------------- administrative batch edits
\* One session receives, updates and deletes batches of p1, one request at a time.
EditHandler == "h2"

NextEdit ==
  \/ \E bn \in {"L1", "L2"}, q \in 1..MaxQty :
       PostArrive(EditHandler, "p1", PostData(bn, q))
  \/ \E bid \in 1..MaxBatchId, q \in 0..MaxQty, given \in {{"quantity"}, {"costPrice"}} :
       PatchArrive(EditHandler, "p1", bid, PostData("", q), given)
  \/ \E bid \in 1..MaxBatchId : DeleteArrive(EditHandler, "p1", bid)
  \/ ServerStep(EditHandler)
  \/ AdminStep(EditHandler)
  \/ Respond(EditHandler)

SpecEdit == InitLedger /\ [][NextEdit]_vars

\* The step in which an update or a delete ends with success.
EditCompletes(h) ==
  /\ req[h].kind \in {"PATCH", "DELETE"}
  /\ req[h].pc \notin {"idle", "done"}
  /\ req'[h].pc = "done"
  /\ req'[h].status \in {200, 204}

\* The sum of the product's batches as the request found them: at the request's
\* last step only the update's own batch write lies behind.
SumBefore(h) ==
  IF req[h].kind = "PATCH" /\ req[h].pc = "writeProduct"
  THEN SetSumQty(DbBatchesOf(req[h].productId)) - (req[h].data.quantity - req[h].existingQty)
  ELSE SetSumQty(DbBatchesOf(req[h].productId))

\* The product the request read had stockLevel = sum of its batches.
StartedConserved(h) == req[h].stockLevel = SumBefore(h)

\* The update sets the batch's quantity to 0.
SetsToZero(h) ==
  /\ req[h].kind = "PATCH"
  /\ "quantity" \in req[h].given
  /\ req[h].data.quantity = 0

\* C35 (Administrative edits keep the sum): on a product whose stockLevel is the
\* sum of its batches, a successful PATCH setting a batch's quantity to any
\* q >= 0, 0 included, or a successful DELETE of a batch leaves stockLevel equal
\* to the sum of the remaining batches.
C35_EditsKeepSum ==
  [][\A h \in Handlers :
       (EditCompletes(h) /\ StartedConserved(h)) => DbConserved("p1")']_vars

\* The same for every edit but an update to quantity 0.
NonZeroEditsKeepSum ==
  [][\A h \in Handlers :
       (EditCompletes(h) /\ StartedConserved(h) /\ ~SetsToZero(h)) => DbConserved("p1")']_vars


\* ------------------------------------------------- failed catalog re-read
\* C36 (Failed re-read): when the GET inside fetchProducts fails, the failure
\* reaches the caller as an error and allProducts / products keep the value
\* they had before the call.
C36_FailedRereadHarmless ==
  [][FetchFail => (call'.pc = "threw" /\ UNCHANGED storeVars)]_vars

\* What the catch block does instead: the call resolves over the fallback catalog.
FailedRereadFallsBack ==
  [][FetchFail => (call'.pc = "returned" /\ allProducts' = MockProducts)]_vars


\* ------------------------------------------------------ commit: termination
\* What goes on without the clerk once a commit runs: the requests travel, the
\* server works, the responses (or failures) arrive, the handler resumes.
CommitProgress ==
  \/ SaveContinue
  \/ SaveFinish
  \/ SaveCatch
  \/ CreateBatchSend
  \/ CreateBatchFail
  \/ CreateBatchRespond
  \/ CreateProductSend
  \/ CreateProductFail
  \/ CreateProductRespond
  \/ \E h \in Handlers : ServerStep(h)
  \/ \E h \in Handlers : ProductFindGtin(h)
  \/ \E h \in Handlers : ProductCreate(h)
  \/ FetchResolve
  \/ FetchFail

\* Every awaited call eventually resolves or rejects, and the handler resumes.
SpecSaveFair == SpecSave /\ WF_vars(CommitProgress)

\* A commit starts in this step.
SaveStarts == save.pc = "idle" /\ save'.pc = "running"

\* C37 (Commit always finishes): provided every awaited call eventually resolves
\* or rejects, a started saveAll ends with isSaving = false, on the success path
\* and on the failure path; and while isSaving is true no second saveAll starts.
C37_CommitFinishes ==
  /\ (isSaving ~> ~isSaving)
  /\ [](isSaving <=> save.pc = "running")
  /\ [][SaveStarts => (~isSaving /\ isSaving')]_vars

\* A commit has run to its end (its receive is in the database, its rows are gone
\* from the grid, its final refresh fell back) and rows were scanned after it: the
\* flag is down and a new commit can start.
C37_Witness ==
  /\ ~isSaving
  /\ save.pc = "idle"
  /\ call.pc = "idle"
  /\ gridData # <<>>
  /\ Len(gridData) < rowSeq
  /\ SetSumQty(DbBatchesOf("p1")) > 1
  /\ allProducts = MockProducts


\* ------------------------------------------- scanner store (store.ts 513-616)
MaxSyncs == 2

\* startScan(record): the scanned record becomes the item under verification,
\* its name pre-filled from the product of that gtin.
startScan(record) ==
  /\ Len(scannedItems) < MaxSyncs
  /\ LET match == FindIndex(allProducts, LAMBDA p : p.gtin = record.gtin)
         newItem == [id |-> Len(scannedItems) + 1,
                     gtin |-> record.gtin,
                     productName |-> IF match >= 1 THEN allProducts[match].nameEn ELSE "",
                     batchNumber |-> record.batchNumber,
                     expiryDate |-> record.expiryDate,
                     quantity |-> 0,
                     costPrice |-> 0,
                     syncStatus |-> "PENDING",
                     rawData |-> record.rawData,
                     verified |-> FALSE]
     IN /\ activeScan' = <<newItem>>
        /\ activeScan' # activeScan
  /\ UNCHANGED <<dbVars, req, clock, storeVars, call, gridData, isSaving, save, rowSeq,
                 scans, memo, retVars, scannedItems, syncLogs, items, addRun>>

\* allProducts.find(p => p.gtin === item.gtin), and for an item without gtin
\* the fallback find by sku or id against rawData; 0 when none.
SyncProductIndex(all, item) ==
  LET byGtin == FindIndex(all, LAMBDA p : p.gtin = item.gtin)
  IN IF byGtin = 0 /\ item.gtin = ""
     THEN FindIndex(all, LAMBDA p : p.sku = item.rawData \/ p.id = item.rawData)
     ELSE byGtin

\* The log entry of a matched item.
SyncLog(finalItem, product) ==
  [scanId |-> finalItem.id, action |-> "UPDATE", productName |-> product.nameEn,
   oldQuantity |-> product.stockLevel,
   newQuantity |-> product.stockLevel + finalItem.quantity,
   status |-> "SUCCESS"]

\* confirmAndSync(verifiedItem): the clerk has entered quantity and cost. With a
\* product found, incrementStock is started (its promise is not awaited) and the
\* item and its log are recorded at once; with none, the item is recorded as an error.
confirmAndSync(quantity, costPrice) ==
  /\ activeScan # <<>>
  /\ call.pc = "idle"
  /\ LET verifiedItem == [activeScan[1] EXCEPT !.quantity = quantity,
                                                !.costPrice = costPrice]
         m == SyncProductIndex(allProducts, verifiedItem)
     IN IF m >= 1
        THEN LET product == allProducts[m]
                 finalItem == [verifiedItem EXCEPT !.productName = product.nameEn,
                                                   !.syncStatus = "SYNCED",
                                                   !.verified = TRUE]
             IN /\ call' = IncrementStockStarted("direct", product.id,
                             verifiedItem.batchNumber, verifiedItem.quantity,
                             verifiedItem.expiryDate, verifiedItem.costPrice)
                /\ scannedItems' = <<finalItem>> \o scannedItems
                /\ syncLogs' = <<SyncLog(finalItem, product)>> \o syncLogs
        ELSE /\ scannedItems' = <<[verifiedItem EXCEPT !.syncStatus = "ERROR",
                                                       !.verified = TRUE]>>
                                \o scannedItems
             /\ UNCHANGED <<call, syncLogs>>
  /\ activeScan' = <<>>
  /\ UNCHANGED <<dbVars, req, clock, storeVars, gridData, isSaving, save, rowSeq,
                 scans, memo, retVars, items, addRun>>

\* Records are scanned, verified and synchronised, one call at a time.
NextScanner ==
  \/ \E in \in ScanInputs : startScan(in[2])
  \/ \E q \in 1..MaxQty, c \in {0, 1} : confirmAndSync(q, c)
  \/ CreateBatchSend
  \/ CreateBatchFail
  \/ CreateBatchRespond
  \/ ServerStep(ClientHandler)
  \/ FetchResolve
  \/ FetchFail
  \/ CallReturn

SpecScanner == InitLedger /\ [][NextScanner]_vars

\* The newest item's stock mutation has failed.
SyncFailed == call.fn = "incrementStock" /\ call.pc = "threw"

\* An item of that id has a SUCCESS log.
HasSuccessLog(id) ==
  \E i \in 1..Len(syncLogs) : syncLogs[i].scanId = id /\ syncLogs[i].status = "SUCCESS"

\* The step that records an item for which no product was found.
RecordsError ==
  /\ Len(scannedItems') = Len(scannedItems) + 1
  /\ scannedItems'[1].syncStatus = "ERROR"

\* C38 (SYNCED only on success): a scanned item that matches a catalog product
\* is recorded with syncStatus SYNCED and a SUCCESS log only when the
\* incrementStock call for it completed successfully; when no product matches,
\* no stock mutation is issued and the item is recorded with syncStatus ERROR.
C38_SyncedOnlyOnSuccess ==
  /\ [](SyncFailed => /\ scannedItems[1].syncStatus # "SYNCED"
                      /\ ~HasSuccessLog(scannedItems[1].id))
  /\ [][RecordsError => UNCHANGED <<call, req, dbVars, storeVars, syncLogs>>]_vars
  /\ [](\A i \in 1..Len(scannedItems) :
          scannedItems[i].syncStatus = "ERROR" => ~HasSuccessLog(scannedItems[i].id))

\* The unmatched half alone.
UnmatchedRecordsError ==
  /\ [][RecordsError => UNCHANGED <<call, req, dbVars, storeVars, syncLogs>>]_vars
  /\ [](\A i \in 1..Len(scannedItems) :
          scannedItems[i].syncStatus = "ERROR" => ~HasSuccessLog(scannedItems[i].id))


\* --------------------------------------------- cart store (store.ts 200-246)
MaxLines == 2
MaxCartQty == 2

\* An option that was not passed (undefined); batch ids are positive.
NoBatchId == 0
NotGiven == "undefined"
NoRun == [key |-> <<>>, n |-> 0, fresh |-> FALSE]

\* get().items.find(i => productMatch && scannedBatchMatch && overrideMatch), 0 when none
ExistingLine(lines, product, batchId, scannedBatch, override) ==
  FindIndex(lines, LAMBDA i :
    /\ i.id = product.id
    /\ IF scannedBatch # NotGiven
       THEN i.scanned_batch = scannedBatch
       ELSE i.selectedBatchId = batchId
    /\ i.manager_override = override)

\* Math.random().toString(): an id no line of the cart has.
FreshCartId(lines) ==
  LET used == {lines[k].cartId : k \in 1..Len(lines)}
      free == (1..(Len(lines) + 1)) \ used
  IN CHOOSE n \in free : \A m \in free : n <= m

\* batchId || product.batches[0]?.id
SelectedBatchId(product, batchId) ==
  IF batchId # NoBatchId THEN batchId
  ELSE IF product.batches # <<>> THEN product.batches[1].id
  ELSE NoBatchId

\* The items array addItem sets.
AddedTo(lines, product, batchId, scannedBatch, override) ==
  LET e == ExistingLine(lines, product, batchId, scannedBatch, override)
  IN IF e >= 1
     THEN [k \in 1..Len(lines) |->
             IF lines[k].cartId = lines[e].cartId
             THEN [lines[k] EXCEPT !.quantity = @ + 1]
             ELSE lines[k]]
     ELSE Append(lines, [id |-> product.id, cartId |-> FreshCartId(lines),
                         quantity |-> 1,
                         selectedBatchId |-> SelectedBatchId(product, batchId),
                         scanned_batch |-> scannedBatch,
                         manager_override |-> override])

LinesOf(lines, productId) == {k \in 1..Len(lines) : lines[k].id = productId}

\* The model's caps on the cart's length and on a line's quantity.
CartRoom(product, batchId, scannedBatch, override) ==
  LET e == ExistingLine(items, product, batchId, scannedBatch, override)
  IN IF e >= 1 THEN items[e].quantity < MaxCartQty ELSE Len(items) < MaxLines

addItem(product, batchId, scannedBatch, override) ==
  /\ CartRoom(product, batchId, scannedBatch, override)
  /\ items' = AddedTo(items, product, batchId, scannedBatch, override)
  /\ addRun' = LET key == <<product.id, batchId, scannedBatch, override>>
               IN IF addRun.key = key
                  THEN [addRun EXCEPT !.n = @ + 1]
                  ELSE [key |-> key, n |-> 1, fresh |-> LinesOf(items, product.id) = {}]
  /\ UNCHANGED <<dbVars, req, clock, storeVars, call, gridData, isSaving, save, rowSeq,
                 scans, memo, retVars, activeScan, scannedItems, syncLogs>>

removeItem(cartId) ==
  /\ \E k \in 1..Len(items) : items[k].cartId = cartId
  /\ items' = SelectSeq(items, LAMBDA i : i.cartId # cartId)
  /\ addRun' = NoRun
  /\ UNCHANGED <<dbVars, req, clock, storeVars, call, gridData, isSaving, save, rowSeq,
                 scans, memo, retVars, activeScan, scannedItems, syncLogs>>

\* quantity: Math.max(1, qty)
updateQuantity(cartId, qty) ==
  /\ \E k \in 1..Len(items) : items[k].cartId = cartId /\ items[k].quantity # Max(1, qty)
  /\ items' = [k \in 1..Len(items) |->
                 IF items[k].cartId = cartId
                 THEN [items[k] EXCEPT !.quantity = Max(1, qty)]
                 ELSE items[k]]
  /\ addRun' = NoRun
  /\ UNCHANGED <<dbVars, req, clock, storeVars, call, gridData, isSaving, save, rowSeq,
                 scans, memo, retVars, activeScan, scannedItems, syncLogs>>

\* The cashier adds products of the catalog, with and without a chosen batch, a
\* scanned batch and a manager override, changes quantities and removes lines.
NextCart ==
  \/ \E k \in 1..Len(allProducts), batchId \in {NoBatchId, 1},
        scannedBatch \in {NotGiven, "L1"}, override \in {NotGiven, "true"} :
       addItem(allProducts[k], batchId, scannedBatch, override)
  \/ \E cartId \in 1..MaxLines : removeItem(cartId)
  \/ \E cartId \in 1..MaxLines, qty \in (0 - 1)..MaxCartQty : updateQuantity(cartId, qty)

SpecCart == InitLedger /\ [][NextCart]_vars

\* C39 (Cart line coalescing): n calls of addItem for the same product with the
\* same options, with no other cart operation in between, on a cart that held no
\* line of the product, give exactly one line of that product, of quantity n; and
\* after any sequence of addItem, updateQuantity and removeItem every line has
\* quantity >= 1.
C39_CartCoalescing ==
  /\ (addRun.n >= 1 /\ addRun.fresh) =>
       /\ Cardinality(LinesOf(items, addRun.key[1])) = 1
       /\ \A k \in LinesOf(items, addRun.key[1]) : items[k].quantity = addRun.n
  /\ \A k \in 1..Len(items) : items[k].quantity >= 1

\* Every line has quantity >= 1.
LinesPositive == \A k \in 1..Len(items) : items[k].quantity >= 1

\* The same run of calls when a batch id or a scanned batch is passed, or the
\* product has no batch.
CoalescesWithBatchGiven ==
  (addRun.n >= 1 /\ addRun.fresh
     /\ (addRun.key[2] # NoBatchId \/ addRun.key[3] # NotGiven \/ addRun.key[1] = "p2")) =>
    /\ Cardinality(LinesOf(items, addRun.key[1])) = 1
    /\ \A k \in LinesOf(items, addRun.key[1]) : items[k].quantity = addRun.n

====
